---- MODULE Spec2Model ----
(***************************************************************************)
(* A model of the Indigo MCP server: the tool handlers (read-only indexer  *)
(* queries and unsigned-transaction builders), the record locators they    *)
(* use, owner canonicalisation and the CDP health analytics.               *)
(***************************************************************************)
EXTENDS Integers, Sequences, FiniteSets, TLC

VARIABLES
    delisted,       \* chain: the assets whose iAsset record has a Delisted price source
    apiKey,         \* process.env.BLOCKFROST_API_KEY is set
    lucidInstance,  \* lucid-provider: the cached chain-access handle (or null)
    cachedParams,   \* sdk-config: the cached parameter document (or null)
    req,            \* the tool invocation in progress (tool name and arguments)
    pc,             \* position of the invocation inside its handler
    lk,             \* record lookups of the invocation: kind -> outcome
    asm,            \* use of the SDK transaction builder and of complete()
    net,            \* external requests issued by the invocation, by backend
    res,            \* what the invocation handed back across the tool boundary
    call,           \* a pure function application: the function and its arguments
    ret,            \* ... and its value
    now,            \* Date.now(), in milliseconds since the process started
    cacheTimestamp, \* sdk-config: Date.now() of the call that filled the cache
    calls           \* provider calls in flight or returned, by caller

vars == <<delisted, apiKey, lucidInstance, cachedParams, req, pc, lk, asm, net, res, call, ret,
          now, cacheTimestamp, calls>>

machineVars == <<delisted, apiKey, lucidInstance, cachedParams, req, pc, lk, asm, net, res>>
pureVars == <<call, ret>>
providerVars == <<now, cacheTimestamp, calls>>

None == [fn |-> "none"]

-----------------------------------------------------------------------------
(* Numbers.  JavaScript numbers are modelled as exact rationals n/d, d > 0, *)
(* kept in lowest terms.                                                    *)

Abs(x) == IF x < 0 THEN -x ELSE x

RECURSIVE Gcd(_, _)
Gcd(a, b) == IF b = 0 THEN a ELSE Gcd(b, a % b)

Rat(n, d) ==
    LET g == Gcd(Abs(n), Abs(d))
        s == IF d < 0 THEN -1 ELSE 1
    IN  [n |-> (s * n) \div g, d |-> (s * d) \div g]

RatInt(k) == [n |-> k, d |-> 1]
RatMul(a, b) == Rat(a.n * b.n, a.d * b.d)
RatDiv(a, b) == Rat(a.n * b.d, a.d * b.n)
RatSub(a, b) == Rat(a.n * b.d - b.n * a.d, a.d * b.d)
RatGeq(a, b) == a.n * b.d >= b.n * a.d
RatGt(a, b) == a.n * b.d > b.n * a.d
RatIsZero(a) == a.n = 0

-----------------------------------------------------------------------------
(* Bounds of the model and program constants.                               *)

MaxCollateralSteps == 12   \* collateral ranges over 0 .. 12 quarter-ADA steps
MaxAccruedSteps == 2       \* accrued interest ranges over 0 .. 2 quarter-units

Million == 1000000         \* loan.collateral / 1e6, loan.minted / 1e6
Hundred == 100             \* ... * 100
SafetyNum == 3             \* maintenanceRatio * 1.5, as 3/2
SafetyDen == 2

QuarterUnit == Million \div 4

CollateralValues == {k * QuarterUnit : k \in 0..MaxCollateralSteps}
MintedValues == {0, Million, 2 * Million}
AccruedValues == {k * QuarterUnit : k \in 0..MaxAccruedSteps}
PriceValues == {Rat(-1, 1), Rat(0, 1), Rat(1, 2), Rat(1, 1), Rat(2, 1), Rat(3, 1)}
MinRatioValues == {150, 200}
LiquidationValues == {125, 175}

-----------------------------------------------------------------------------
(* CDP health analytics: tools/cdp-tools.ts analyze_cdp_health.             *)

\* A slip in the unit conversion: the minted amount is not scaled by 1e6.
AnalyzeRatio_unscaledMinted(loan, assetInfo) ==
    LET collateralAda == Rat(loan.collateral, Million)
        mintedTokens == RatInt(loan.minted)
        priceAda == assetInfo.price
    IN  IF RatGt(mintedTokens, RatInt(0)) /\ RatGt(priceAda, RatInt(0))
        THEN RatMul(RatDiv(collateralAda, RatMul(mintedTokens, priceAda)), RatInt(Hundred))
        ELSE RatInt(0)

\* collateralRatio of one loan (cdp-tools.ts 177-183)
AnalyzeRatio(loan, assetInfo) ==
    LET collateralAda == Rat(loan.collateral, Million)
        mintedTokens == Rat(loan.minted, Million)
        priceAda == assetInfo.price
    IN  IF RatGt(mintedTokens, RatInt(0)) /\ RatGt(priceAda, RatInt(0))
        THEN RatMul(RatDiv(collateralAda, RatMul(mintedTokens, priceAda)), RatInt(Hundred))
        ELSE RatInt(0)

\* A slip in the comparisons: strict instead of inclusive thresholds.
AnalyzeStatus_strict(collateralRatio, maintenanceRatio, liquidationRatio) ==
    IF RatGt(collateralRatio, RatMul(RatInt(maintenanceRatio), Rat(SafetyNum, SafetyDen)))
    THEN "safe"
    ELSE IF RatGt(collateralRatio, RatInt(maintenanceRatio))
    THEN "warning"
    ELSE IF RatGt(collateralRatio, RatInt(liquidationRatio))
    THEN "at-risk"
    ELSE "liquidatable"

\* the tier of a ratio (cdp-tools.ts 185-197)
AnalyzeStatus(collateralRatio, maintenanceRatio, liquidationRatio) ==
    IF RatGeq(collateralRatio, RatMul(RatInt(maintenanceRatio), Rat(SafetyNum, SafetyDen)))
    THEN "safe"
    ELSE IF RatGeq(collateralRatio, RatInt(maintenanceRatio))
    THEN "warning"
    ELSE IF RatGeq(collateralRatio, RatInt(liquidationRatio))
    THEN "at-risk"
    ELSE "liquidatable"

\* Math.round(x): the nearest integer, a tie going up
MathRound(x) == (2 * x.n + x.d) \div (2 * x.d)

\* Math.round(collateralRatio * 100) / 100 (cdp-tools.ts 204)
RoundCents(x) == Rat(MathRound(RatMul(x, RatInt(Hundred))), Hundred)

\* one element of the analysis (cdp-tools.ts 171-209), for a loan whose asset is
\* known: `ratio` is the local collateralRatio the tiers are decided on,
\* `collateralRatio` the rounded value the element reports
AnalyzeLoan(loan, assetInfo) ==
    LET collateralRatio == AnalyzeRatio(loan, assetInfo)
        maintenanceRatio == assetInfo.minRatio
        liquidationRatio == assetInfo.liquidation
    IN  [ratio |-> collateralRatio,
         collateralRatio |-> RoundCents(collateralRatio),
         maintenanceRatio |-> maintenanceRatio,
         liquidationRatio |-> liquidationRatio,
         status |-> AnalyzeStatus(collateralRatio, maintenanceRatio, liquidationRatio)]

-----------------------------------------------------------------------------
(* utils.ts: the ratio and interest helpers behind formatCdp.               *)

\* cdpAccruedAssetInterest (utils.ts 59-69): zero without an interest record,
\* otherwise what InterestOracleContract.calculateAccruedInterest answers.
cdpAccruedAssetInterest(hasInterestRate, sdkAccrued) ==
    IF ~hasInterestRate THEN 0 ELSE sdkAccrued

\* cdpCollateralRatio (utils.ts 44-57)
cdpCollateralRatio(collateral, mintedAmount, assetPrice, feesType, hasInterestRate, sdkAccrued) ==
    IF assetPrice.n = 0 \/ mintedAmount = 0 THEN RatInt(0)
    ELSE IF feesType # "ActiveCDPInterestTracking" THEN RatInt(0)
    ELSE LET totalInterestAsset == cdpAccruedAssetInterest(hasInterestRate, sdkAccrued)
             totalInterestLovelace == RatMul(RatInt(totalInterestAsset), assetPrice)
         IN  RatMul(RatDiv(RatSub(RatInt(collateral), totalInterestLovelace),
                           RatMul(assetPrice, RatInt(mintedAmount))),
                    RatInt(Hundred))

FeesTypes == {"ActiveCDPInterestTracking", "FrozenCDPAccumulatedFees"}

-----------------------------------------------------------------------------
(* The health specification: the analytics applied to bounded inputs.       *)

\* the records a transaction builder may have to locate before assembling
LookupKinds ==
    {"account", "iasset", "cdpCreator", "collector", "gov", "treasury",
     "stabilityPool", "lrps", "stakingManager", "priceOracle", "interestOracle"}

Unused == [st |-> "unused"]
Pending == [st |-> "pending"]
NoLookups == [k \in LookupKinds |-> Unused]
NoAssembly == [builder |-> FALSE, complete |-> FALSE]
NoRequests == [indexer |-> 0, chain |-> 0, params |-> 0, init |-> 0]

\* cachedParams: null, or a parameter document the configuration URL served
NullParams == "null"
ParamsDocs == {"v21", "v22"}
DeployedParams == "v21"

\* no provider call was made
NoCalls == <<>>

\* a caller that made no call yet
NotCalled == [st |-> "idle"]

\* the record of a call once resetLucid() ran: a call that returned belongs to
\* the time before the reset, a call in flight has the reset inside it
AcrossReset(k) ==
    IF k.st = "constructing" THEN [k EXCEPT !.straddled = TRUE] ELSE NotCalled

\* lucidInstance: null, or the handle with the wallet last selected on it
NullLucid == [live |-> FALSE, wallet |-> "none"]
Lucid(wallet) == [live |-> TRUE, wallet |-> wallet]

\* the process before its first tool invocation
MachineIdle ==
    /\ lucidInstance = NullLucid
    /\ cachedParams = NullParams
    /\ cacheTimestamp = 0
    /\ now = 0
    /\ calls = NoCalls
    /\ req = None
    /\ pc = "idle"
    /\ lk = NoLookups
    /\ asm = NoAssembly
    /\ net = NoRequests
    /\ res = None

AnalyzeCalls ==
    {[fn |-> "analyze_cdp_health", collateral |-> c, minted |-> m, price |-> p,
      minRatio |-> mr, liquidation |-> lr, accrued |-> acc] :
        c \in CollateralValues, m \in MintedValues, p \in PriceValues,
        mr \in MinRatioValues, lr \in LiquidationValues, acc \in AccruedValues}

CollateralRatioCalls ==
    {[fn |-> "cdpCollateralRatio", collateral |-> c, minted |-> m, price |-> p,
      feesType |-> ft, hasInterestRate |-> hi, accrued |-> acc] :
        c \in CollateralValues, m \in MintedValues, p \in PriceValues,
        ft \in FeesTypes, hi \in BOOLEAN, acc \in AccruedValues}

HealthInit ==
    /\ apiKey = TRUE
    /\ delisted = {}
    /\ MachineIdle
    /\ call \in AnalyzeCalls \cup CollateralRatioCalls
    /\ ret = None

\* analyze_cdp_health on one position of the owner
ApplyAnalyze ==
    /\ call.fn = "analyze_cdp_health"
    /\ ret = None
    /\ ret' = AnalyzeLoan([collateral |-> call.collateral, minted |-> call.minted],
                          [price |-> call.price, minRatio |-> call.minRatio,
                           liquidation |-> call.liquidation])
    /\ UNCHANGED <<call, machineVars, providerVars>>

\* cdpCollateralRatio as formatCdp calls it
ApplyCollateralRatio ==
    /\ call.fn = "cdpCollateralRatio"
    /\ ret = None
    /\ ret' = [ratio |-> cdpCollateralRatio(call.collateral, call.minted, call.price,
                                            call.feesType, call.hasInterestRate, call.accrued)]
    /\ UNCHANGED <<call, machineVars, providerVars>>

HealthNext == ApplyAnalyze \/ ApplyCollateralRatio

SpecHealth == HealthInit /\ [][HealthNext]_vars

-----------------------------------------------------------------------------
(* Properties of the health analytics (checked under SpecHealth).           *)

Analyzed == call.fn = "analyze_cdp_health" /\ ret # None
RatioComputed == call.fn = "cdpCollateralRatio" /\ ret # None

\* The ratio the specification's formula gives, for price > 0 and minted > 0:
\* ((collateral - accrued * price) / (minted * price)) * 100.
FormulaRatio(collateral, accrued, minted, price) ==
    Rat(Hundred * (collateral * price.d - accrued * price.n), minted * price.n)

\* the ratio handed to the caller
ReportedRatio == IF call.fn = "analyze_cdp_health" THEN ret.collateralRatio ELSE ret.ratio

\* C4: analyze_cdp_health gives each position the first matching tier in the
\* order safe (ratio >= 1.5 x maintenance), warning (ratio >= maintenance),
\* at-risk (ratio >= liquidation), liquidatable; a ratio equal to a threshold
\* gets the higher tier.
C4_TierOrder ==
    Analyzed =>
        LET r == ret.ratio
            geSafe == SafetyDen * r.n >= SafetyNum * call.minRatio * r.d
            geMaint == r.n >= call.minRatio * r.d
            geLiq == r.n >= call.liquidation * r.d
        IN  /\ (ret.status = "safe") = geSafe
            /\ (ret.status = "warning") = (~geSafe /\ geMaint)
            /\ (ret.status = "at-risk") = (~geSafe /\ ~geMaint /\ geLiq)
            /\ (ret.status = "liquidatable") = (~geSafe /\ ~geMaint /\ ~geLiq)

\* a position whose ratio is exactly the maintenance ratio, reported as warning
C4_Witness ==
    /\ Analyzed
    /\ ret.ratio.n = call.minRatio * ret.ratio.d
    /\ ret.status = "warning"

\* C5: the ratio is exactly 0 whenever price <= 0 or mintedAmount = 0, in
\* analyze_cdp_health and in cdpCollateralRatio alike.
C5_DegenerateRatioZero ==
    ((Analyzed \/ RatioComputed) /\ (call.price.n <= 0 \/ call.minted = 0))
        => RatIsZero(ReportedRatio)

\* C6 as stated: with minted > 0 and price > 0 the reported ratio is the formula's
\* value with the position's accrued interest subtracted, in both functions.
C6_RatioWithInterest ==
    ((Analyzed \/ (RatioComputed /\ call.feesType = "ActiveCDPInterestTracking"
                                 /\ call.hasInterestRate))
     /\ call.minted > 0 /\ call.price.n > 0)
        => ReportedRatio = FormulaRatio(call.collateral, call.accrued, call.minted, call.price)

\* C6 amended: analyze_cdp_health reports (collateral / (minted x price)) x 100
\* with no interest term, rounded to two decimals; cdpCollateralRatio, for a position with active interest
\* tracking, subtracts accrued interest x price (zero without an interest record).
C6_RatioAmended ==
    /\ (Analyzed /\ call.minted > 0 /\ call.price.n > 0)
          => ReportedRatio
                = RoundCents(FormulaRatio(call.collateral, 0, call.minted, call.price))
    /\ (RatioComputed /\ call.feesType = "ActiveCDPInterestTracking"
            /\ call.minted > 0 /\ call.price.n > 0)
          => ReportedRatio = FormulaRatio(call.collateral,
                                      IF call.hasInterestRate THEN call.accrued ELSE 0,
                                      call.minted, call.price)

\* both functions applied to a position that has accrued interest
C6_Witness ==
    /\ Analyzed \/ (RatioComputed /\ call.feesType = "ActiveCDPInterestTracking"
                                  /\ call.hasInterestRate)
    /\ call.accrued > 0 /\ call.minted > 0 /\ call.price.n > 0 /\ call.collateral > 0

-----------------------------------------------------------------------------
(* Owner canonicalisation: utils/address.ts.                                *)
(* A string is a sequence of one-character strings.  An input is either a   *)
(* plain text, or a bech32 text hrp "1" data, given by its human-readable   *)
(* part, the bytes its data part encodes, and whether bech32.decode accepts *)
(* it (checksum, alphabet and length limit).                                *)

CredLen == 56              \* /^[0-9a-fA-F]{56}$/
PkhFirst == 1              \* bytes.slice(1, 29)
PkhEnd == 29
MaxLoans == 2              \* loans in the indexer's answer

HexLower == <<"0", "1", "2", "3", "4", "5", "6", "7", "8", "9", "a", "b", "c", "d", "e", "f">>
HexUpper == <<"0", "1", "2", "3", "4", "5", "6", "7", "8", "9", "A", "B", "C", "D", "E", "F">>

IsHexChar(ch) == \E i \in 1..16 : HexLower[i] = ch \/ HexUpper[i] = ch
NibbleOf(ch) == CHOOSE v \in 0..15 : HexLower[v + 1] = ch \/ HexUpper[v + 1] = ch

TextInput(chars) == [form |-> "text", chars |-> chars]
Bech32Input(hrp, bytes, valid) == [form |-> "bech32", hrp |-> hrp, bytes |-> bytes, valid |-> valid]

\* /^[0-9a-fA-F]{56}$/.test(input)
IsCredentialHex(input) ==
    /\ input.form = "text"
    /\ Len(input.chars) = CredLen
    /\ \A i \in 1..Len(input.chars) : IsHexChar(input.chars[i])

\* input.startsWith('addr1') || input.startsWith('addr_test1')
HasAddressPrefix(input) ==
    input.form = "bech32" /\ input.hrp \in {"addr", "addr_test"}

\* Array.prototype.slice(start, end) on a byte array
ByteSlice(bytes, start, end) ==
    IF start >= Len(bytes) THEN <<>>
    ELSE SubSeq(bytes, start + 1, IF end < Len(bytes) THEN end ELSE Len(bytes))

\* Buffer.from(bytes).toString('hex'): two lowercase digits per byte
ToHex(bytes) ==
    [i \in 1..(2 * Len(bytes)) |->
        IF i % 2 = 1 THEN HexLower[(bytes[(i + 1) \div 2] \div 16) + 1]
                     ELSE HexLower[(bytes[i \div 2] % 16) + 1]]

Ok(v) == [ok |-> TRUE, val |-> v]
Err(e) == [ok |-> FALSE, err |-> e]

\* extractPaymentCredential (address.ts 3-16)
extractPaymentCredential(input) ==
    IF IsCredentialHex(input) THEN Ok(input.chars)
    ELSE IF HasAddressPrefix(input)
    THEN IF input.valid THEN Ok(ToHex(ByteSlice(input.bytes, PkhFirst, PkhEnd)))
                        ELSE Err("bech32 decode failed")
    ELSE Err("Invalid address or payment key hash")

\* (response.data as Loan[]).filter((l) => l.owner === pkh)   (cdp-tools.ts 87)
OwnerFilter(loans, pkh) == SelectSeq(loans, LAMBDA l : l.owner = pkh)

\* get_cdps_by_owner (cdp-tools.ts 82-102) against an indexer answer `loans`
get_cdps_by_owner(owner, loans) ==
    LET pkh == extractPaymentCredential(owner)
    IN  IF pkh.ok THEN Ok(OwnerFilter(loans, pkh.val)) ELSE pkh

-----------------------------------------------------------------------------
(* Inputs of the address specification.                                     *)

\* the bytes a hex text denotes
HexToBytes(chars) ==
    [i \in 1..(Len(chars) \div 2) |-> 16 * NibbleOf(chars[2 * i - 1]) + NibbleOf(chars[2 * i])]

CredChars == {"1", "a", "B"}
Credentials == {[i \in 1..CredLen |-> IF i % 2 = 1 THEN x ELSE y] : x, y \in CredChars}

\* header bytes: 0x01 base address, 0x61 enterprise address (mainnet)
HeaderBytes == {1, 97}
StakeParts == {<<>>, [i \in 1..28 |-> 7]}

\* a structured address whose payment part is the credential c
AddressEmbedding(c, header, stake) ==
    Bech32Input("addr", <<header>> \o HexToBytes(c) \o stake, TRUE)

\* owners as the indexer stores them: lowercase hex
IndexedOwners == {ToHex(HexToBytes(c)) : c \in Credentials}

RECURSIVE SeqsUpTo(_, _)
SeqsUpTo(S, n) ==
    IF n = 0 THEN {<<>>}
    ELSE LET shorter == SeqsUpTo(S, n - 1)
         IN  shorter \cup {Append(q, x) : q \in {r \in shorter : Len(r) = n - 1}, x \in S}

LoanOwners == {ToHex(HexToBytes([i \in 1..CredLen |-> x])) : x \in CredChars}
LoanLists == SeqsUpTo({[owner |-> o, asset |-> "iUSD"] : o \in LoanOwners}, MaxLoans)

MalformedInputs ==
    {TextInput(<<>>),
     TextInput(<<"n", "o", "t", "-", "v", "a", "l", "i", "d">>),
     TextInput([i \in 1..(CredLen - 1) |-> "a"]),
     TextInput([i \in 1..(CredLen + 2) |-> "a"]),
     TextInput([i \in 1..CredLen |-> IF i = CredLen THEN "g" ELSE "a"]),
     Bech32Input("stake", [i \in 1..29 |-> 7], TRUE),
     Bech32Input("addr", <<>>, FALSE),
     Bech32Input("addr_test", <<>>, FALSE)}

OwnerPairCalls ==
    {[fn |-> "get_cdps_by_owner", c |-> TextInput(c), a |-> AddressEmbedding(c, h, st),
      loans |-> ls] :
        c \in Credentials, h \in HeaderBytes, st \in StakeParts, ls \in LoanLists}

ExtractCalls ==
    {[fn |-> "extractPaymentCredential", input |-> x] :
        x \in MalformedInputs \cup {TextInput(c) : c \in Credentials}
              \cup {AddressEmbedding(c, h, st) :
                        c \in Credentials, h \in HeaderBytes, st \in StakeParts}
              \cup {Bech32Input("addr_test", <<0>> \o HexToBytes(c), TRUE) : c \in Credentials}}

AddrInit ==
    /\ apiKey = TRUE
    /\ delisted = {}
    /\ MachineIdle
    /\ call \in OwnerPairCalls \cup ExtractCalls
    /\ ret = None

\* extractPaymentCredential on one input
ApplyExtract ==
    /\ call.fn = "extractPaymentCredential"
    /\ ret = None
    /\ ret' = extractPaymentCredential(call.input)
    /\ UNCHANGED <<call, machineVars, providerVars>>

\* get_cdps_by_owner asked twice over the same loans: once with the raw
\* credential, once with an address embedding it
ApplyOwnerPair ==
    /\ call.fn = "get_cdps_by_owner"
    /\ ret = None
    /\ ret' = [pkhHex |-> extractPaymentCredential(call.c),
               pkhAddr |-> extractPaymentCredential(call.a),
               byHex |-> get_cdps_by_owner(call.c, call.loans),
               byAddr |-> get_cdps_by_owner(call.a, call.loans)]
    /\ UNCHANGED <<call, machineVars, providerVars>>

AddrNext == ApplyExtract \/ ApplyOwnerPair

SpecAddr == AddrInit /\ [][AddrNext]_vars

\* C7: for every valid 56-hex credential c, in any letter case, and every
\* address a embedding c, extractPaymentCredential(c) = extractPaymentCredential(a),
\* and an owner-scoped query gives the same records for c as for a.
C7_SameCanonicalValue ==
    (call.fn = "get_cdps_by_owner" /\ ret # None) =>
        /\ ret.pkhHex = ret.pkhAddr
        /\ ret.byHex = ret.byAddr

(***************************************************************************)
(* The tool surface.  Transaction builders, grouped by the module that     *)
(* registers them, owner-scoped reads, and the tools of IndigoMcpServer.   *)
(***************************************************************************)
CdpWriteTools == {"open_cdp", "deposit_cdp", "withdraw_cdp", "close_cdp"}
MintBurnTools == {"mint_cdp", "burn_cdp"}
LiquidationTools == {"liquidate_cdp", "redeem_cdp", "freeze_cdp", "merge_cdps"}
LeverageTools == {"leverage_cdp"}
SpRequestTools == {"process_sp_request", "annul_sp_request"}
SpWriteTools == {"create_sp_account", "adjust_sp_account", "close_sp_account"}
StakingWriteTools ==
    {"open_staking_position", "adjust_staking_position", "close_staking_position",
     "distribute_staking_rewards"}
OracleWriteTools == {"feed_interest_oracle", "start_interest_oracle"}
LrpWriteTools == {"open_lrp", "cancel_lrp", "adjust_lrp", "claim_lrp", "redeem_lrp"}

MutatingTools ==
    CdpWriteTools \cup MintBurnTools \cup LiquidationTools \cup LeverageTools
    \cup SpRequestTools \cup SpWriteTools \cup StakingWriteTools
    \cup OracleWriteTools \cup LrpWriteTools

\* the builders whose schema has an `asset` argument
AssetTools ==
    (CdpWriteTools \cup MintBurnTools \cup LeverageTools
     \cup {"liquidate_cdp", "redeem_cdp", "freeze_cdp", "process_sp_request",
           "create_sp_account", "adjust_sp_account", "feed_interest_oracle",
           "open_lrp"})

\* the builders that turn a string argument into a bigint before assembling
AmountTools ==
    {"open_cdp", "deposit_cdp", "withdraw_cdp", "mint_cdp", "burn_cdp", "redeem_cdp",
     "leverage_cdp", "create_sp_account", "adjust_sp_account",
     "open_staking_position", "adjust_staking_position",
     "feed_interest_oracle", "start_interest_oracle", "open_lrp", "adjust_lrp",
     "redeem_lrp"}

OwnerReadTools ==
    {"get_cdps_by_owner", "get_cdps_by_address", "analyze_cdp_health",
     "get_sp_account_by_owner", "get_staking_positions_by_owner",
     "get_staking_position_by_address"}

LegacyTools ==
    {"indigo_assets", "indigo_asset_prices", "indigo_asset_analytics",
     "indigo_interest_rates", "indigo_cdps", "indigo_cdps_at_address"}

Assets == {"iUSD", "iBTC"}

\* fromText(asset): the hex encoding of the asset name, kept apart from the text
fromText(asset) == [hex |-> asset]

\* `Error <doing>` of each builder's catch block
ErrorPrefix(tool) == <<"Error", tool>>

(***************************************************************************)
(* Record locators.  A locator reads the unspent outputs at one protocol   *)
(* address and picks the record the builder needs.  `utxos` is what the    *)
(* chain returned: for the iAsset and stability-pool locators a sequence   *)
(* of records, for the others the number of outputs at the address.        *)
(***************************************************************************)
MaxCandidates == 2
MaxPool == 2

\* an output at the CDP address holding the iAsset auth token: an iAsset
\* state record of one asset, or something whose datum is no IAsset datum
IAssetRecord(asset, price) ==
    [datum |-> "IAsset", assetName |-> fromText(asset), price |-> price,
     units |-> {fromText(asset)}]
OtherRecord == [datum |-> "other", units |-> {}]
PriceSource(asset) == IF asset \in delisted THEN "Delisted" ELSE "Oracle"
Candidates == {OtherRecord} \cup {IAssetRecord(a, PriceSource(a)) : a \in Assets}
CandidateLists == SeqsUpTo(Candidates, MaxCandidates)

\* outputs at the stability-pool address, each the pool of one asset
PoolRecord(asset) == [units |-> {fromText(asset)}]
PoolLists == SeqsUpTo({PoolRecord(a) : a \in Assets}, MaxPool)
PoolCounts == 0..MaxPool

Found(i, utxos) == [st |-> "ok", idx |-> i, seen |-> utxos]
Failed(e, utxos) == [st |-> "err", err |-> e, seen |-> utxos]

\* positions of the sequence that satisfy a test, in order (Array.filter)
Matching(utxos, Test(_)) == {i \in 1..Len(utxos) : Test(utxos[i])}
Lowest(S) == CHOOSE i \in S : \A j \in S : i <= j

\* the scan without its try / catch: a datum that fails to parse ahead of the
\* match ends the scan
findIAssetUtxo_fatalParse(asset, utxos) ==
    LET hits == Matching(utxos, LAMBDA u : u.datum = "IAsset" /\ u.assetName = fromText(asset))
        bad == Matching(utxos, LAMBDA u : u.datum # "IAsset")
    IN  IF bad # {} /\ (hits = {} \/ Lowest(bad) < Lowest(hits))
        THEN Failed("datum does not parse", utxos)
        ELSE IF hits # {} THEN Found(Lowest(hits), utxos)
        ELSE Failed("iAsset UTxO not found", utxos)

\* findIAssetUtxo of cdp-write, liquidation, leverage and oracle tools: the
\* first output whose datum parses as an IAsset datum naming the asset
findIAssetUtxo(asset, utxos) ==
    LET hits == Matching(utxos, LAMBDA u : u.datum = "IAsset" /\ u.assetName = fromText(asset))
    IN  IF hits # {} THEN Found(Lowest(hits), utxos)
        ELSE Failed("iAsset UTxO not found", utxos)

\* matchSingle over a filtered sequence
matchSingle(hits, utxos, e) ==
    IF Cardinality(hits) = 1 THEN Found(Lowest(hits), utxos) ELSE Failed(e, utxos)

\* findIAssetUtxo of mint/burn and sp-request tools: the outputs holding the
\* unit named after the asset, exactly one expected
findIAssetUtxoByUnit(asset, utxos) ==
    matchSingle(Matching(utxos, LAMBDA u : fromText(asset) \in u.units), utxos,
                "Expected exactly one iAsset UTxO")

\* findStabilityPoolUtxo of sp-request tools
findStabilityPoolUtxoByUnit(asset, utxos) ==
    matchSingle(Matching(utxos, LAMBDA u : fromText(asset) \in u.units), utxos,
                "Expected exactly one stability pool UTxO")

\* findStabilityPoolUtxo of the liquidation tools: utxos[0]
findStabilityPoolUtxo(utxos) ==
    IF Len(utxos) = 0 THEN Failed("No stability pool UTxOs found", utxos)
    ELSE Found(1, utxos)

\* `if (utxos.length === 0) throw ...; return utxos[0]`
FirstOf(n, e) == IF n = 0 THEN [st |-> "err", err |-> e] ELSE [st |-> "ok", idx |-> 1]
\* `if (utxos.length !== 1) throw ...; return utxos[0]` and matchSingle(utxos)
SingleOf(n, e) == IF n # 1 THEN [st |-> "err", err |-> e] ELSE [st |-> "ok", idx |-> 1]

findCollectorUtxo(n) == FirstOf(n, "No collector UTxOs found")
findGovUtxo(n) == SingleOf(n, "Expected a single governance UTxO")
findTreasuryUtxo(n) == FirstOf(n, "No treasury UTxOs found")
findTreasuryUtxoSingle(n) == SingleOf(n, "Expected a single treasury UTxO")
findCdpCreatorUtxo(n) == FirstOf(n, "No CDP creator UTxO found")
findCdpCreatorUtxoSingle(n) == SingleOf(n, "Expected a single CDP creator UTxO")

\* findAllLrpUtxos: every output whose datum parses, possibly none
findAllLrpUtxos(n) == [st |-> "ok", length |-> n]
\* findStakingManager of the SDK: one manager record or a throw
findStakingManager(n) == SingleOf(n, "staking manager not found")
\* lucid.utxosByOutRef([ref]) followed by `if (!accountUtxo) throw`
findAccountUtxo(n) == FirstOf(n, "Account UTxO not found on chain")

\* the lookups a builder starts together after loading the parameters
Phase1(tool) ==
    CASE tool = "open_cdp" -> {"iasset", "cdpCreator", "collector"}
      [] tool \in {"deposit_cdp", "withdraw_cdp", "close_cdp"} \cup MintBurnTools
            -> {"iasset", "collector", "gov", "treasury"}
      [] tool = "liquidate_cdp" -> {"stabilityPool", "collector", "treasury"}
      [] tool = "redeem_cdp" -> {"iasset", "collector", "treasury"}
      [] tool \in {"freeze_cdp", "feed_interest_oracle"} -> {"iasset"}
      [] tool = "leverage_cdp" -> {"iasset", "cdpCreator", "collector", "lrps"}
      [] tool = "process_sp_request" -> {"stabilityPool", "gov", "iasset", "collector"}
      [] tool \in {"open_staking_position", "adjust_staking_position",
                   "close_staking_position", "distribute_staking_rewards"}
            -> {"stakingManager"}
      [] OTHER -> {}

\* the builders that go on to findPriceOracleUtxo and findInterestOracleUtxo
Phase2Tools ==
    CdpWriteTools \cup MintBurnTools \cup LeverageTools \cup {"redeem_cdp", "freeze_cdp"}

\* the builders that fetch an account record by reference
AccountFirstTools == {"annul_sp_request", "adjust_sp_account", "close_sp_account"}
AccountAfterParamsTools == {"process_sp_request"}

\* every builder but start_interest_oracle awaits getSystemParams()
ParamsTools == MutatingTools \ {"start_interest_oracle"}

\* what the chain may answer to the query behind a lookup
Answers(kind) ==
    CASE kind = "iasset" -> CandidateLists
      [] kind = "stabilityPool" -> PoolLists
      [] kind = "stakingManager" -> 0..1
      [] kind = "account" -> 0..1
      [] OTHER -> PoolCounts

\* the locator a tool's module defines for a kind of record, applied to the answer
Locate(tool, kind, asset, utxos) ==
    CASE kind = "iasset" ->
            IF tool \in MintBurnTools \cup SpRequestTools
            THEN findIAssetUtxoByUnit(asset, utxos)
            ELSE findIAssetUtxo(asset, utxos)
      [] kind = "stabilityPool" ->
            IF tool \in SpRequestTools THEN findStabilityPoolUtxoByUnit(asset, utxos)
            ELSE findStabilityPoolUtxo(utxos)
      [] kind = "collector" -> findCollectorUtxo(utxos)
      [] kind = "gov" -> findGovUtxo(utxos)
      [] kind = "treasury" ->
            IF tool \in MintBurnTools THEN findTreasuryUtxoSingle(utxos)
            ELSE findTreasuryUtxo(utxos)
      [] kind = "cdpCreator" ->
            IF tool \in LeverageTools THEN findCdpCreatorUtxoSingle(utxos)
            ELSE findCdpCreatorUtxo(utxos)
      [] kind = "lrps" -> findAllLrpUtxos(utxos)
      [] kind = "stakingManager" -> findStakingManager(utxos)
      [] kind = "account" -> findAccountUtxo(utxos)

\* the iAsset record a finished lookup handed to the builder
LocatedIAsset(l) == l.seen[l.idx]

\* findPriceOracleUtxo up to its chain query: a delisted price source throws
findPriceOracleUtxo(iasset) ==
    IF iasset.price = "Delisted"
    THEN [st |-> "err", err |-> "iAsset is delisted, cannot perform CDP operations"]
    ELSE Pending

Digits == {"0", "1", "2", "3", "4", "5", "6", "7", "8", "9"}
\* BigInt(text) on input without blanks or radix prefix: a SyntaxError unless
\* the text is empty or an optionally signed run of decimal digits
BigIntParses(text) ==
    \/ Len(text) = 0
    \/ \A i \in 1..Len(text) : text[i] \in Digits
    \/ /\ Len(text) > 1
       /\ text[1] \in {"+", "-"}
       /\ \A i \in 2..Len(text) : text[i] \in Digits

AmountInputs == {<<"5">>, <<"1", ".", "5">>}

\* the addresses a client may pass, by a short name
AddressBook ==
    [valid |-> AddressEmbedding([i \in 1..CredLen |-> "a"], 1, [i \in 1..28 |-> 7]),
     credential |-> TextInput([i \in 1..CredLen |-> "a"]),
     malformed |-> TextInput(<<"n", "o", "t", "-", "v", "a", "l", "i", "d">>)]

\* the summary literal each handler passes to buildUnsignedTx
TxSummary(r) ==
    [type |-> r.tool,
     inputs |-> [address |-> r.address, asset |-> r.asset, amount |-> r.amount]]

\* buildUnsignedTx's return value, as JSON.stringify makes it the tool's text
UnsignedTxResult_noFee(tx, summary) ==
    [unsignedTx |-> tx.cbor, txHash |-> tx.hash, summary |-> summary]

UnsignedTxResult(tx, summary) ==
    [unsignedTx |-> tx.cbor, txHash |-> tx.hash, fee |-> tx.fee, summary |-> summary]

SuccessResult(payload) == [content |-> payload]
\* the catch block of a server.tool handler
ErrorResult(tool, e) ==
    [content |-> [text |-> <<ErrorPrefix(tool), e>>], isError |-> TRUE]

(***************************************************************************)
(* One tool invocation at a time, from the call to the returned result.    *)
(***************************************************************************)
MutatingRequests ==
    {[tool |-> t, address |-> a, asset |-> as, amount |-> am] :
        t \in MutatingTools, a \in {"valid", "malformed"},
        as \in Assets \cup {"none"}, am \in AmountInputs \cup {<<"none">>}}

WellFormedRequest(r) ==
    /\ (r.asset = "none") = (r.tool \notin AssetTools)
    /\ (r.amount = <<"none">>) = (r.tool \notin AmountTools)

\* a slip: the failure is swallowed and the builder goes on to assemble
Throw_swallowed(e) ==
    /\ pc' = "assemble"
    /\ UNCHANGED res

\* an exception reaches the catch block of the handler, which returns
Throw(e) ==
    /\ res' = ErrorResult(req.tool, e)
    /\ pc' = "done"

Requested(backend, n) == [net EXCEPT ![backend] = @ + n]

AfterLookups(tool) == IF tool \in Phase2Tools THEN "issue2" ELSE "assemble"
AfterPre(tool) == IF Phase1(tool) # {} THEN "issue1" ELSE "assemble"
AfterParams(tool) == IF tool \in AccountAfterParamsTools THEN "account" ELSE AfterPre(tool)
AfterAccount(tool) == IF tool \in AccountFirstTools THEN "params" ELSE AfterPre(tool)
AfterWallet(tool) ==
    IF tool \in AccountFirstTools THEN "account"
    ELSE IF tool \in ParamsTools THEN "params" ELSE "assemble"

\* the MCP server calls a transaction builder's handler
StartMutating ==
    /\ pc = "idle"
    /\ \E r \in MutatingRequests :
        /\ WellFormedRequest(r)
        /\ req' = r
    /\ pc' = "getLucid"
    /\ lk' = NoLookups
    /\ asm' = NoAssembly
    /\ net' = NoRequests
    /\ res' = None
    /\ UNCHANGED <<delisted, apiKey, lucidInstance, cachedParams, call, ret, providerVars>>

MissingKey == "BLOCKFROST_API_KEY environment variable is required for write operations"

\* getLucid() without its test of the API key
GetLucid_noKeyCheck ==
    /\ pc = "getLucid"
    /\ IF lucidInstance.live
       THEN /\ pc' = "utxosAt"
            /\ UNCHANGED <<lucidInstance, net, res>>
       ELSE /\ net' = Requested("init", 1)
            /\ \/ /\ lucidInstance' = Lucid("none")
                  /\ pc' = "utxosAt"
                  /\ UNCHANGED res
               \/ /\ Throw("provider initialisation failed")
                  /\ UNCHANGED lucidInstance
    /\ UNCHANGED <<delisted, apiKey, cachedParams, req, lk, asm, call, ret, providerVars>>

\* getLucid(): the cached handle, or a new one when the API key is set
GetLucid ==
    /\ pc = "getLucid"
    /\ IF lucidInstance.live
       THEN /\ pc' = "utxosAt"
            /\ UNCHANGED <<lucidInstance, net, res>>
       ELSE IF ~apiKey
       THEN /\ Throw(MissingKey)
            /\ UNCHANGED <<lucidInstance, net>>
       ELSE /\ net' = Requested("init", 1)
            /\ \/ /\ lucidInstance' = Lucid("none")
                  /\ pc' = "utxosAt"
                  /\ UNCHANGED res
               \/ /\ Throw("provider initialisation failed")
                  /\ UNCHANGED lucidInstance
    /\ UNCHANGED <<delisted, apiKey, cachedParams, req, lk, asm, call, ret, providerVars>>

\* lucid.utxosAt(address) and selectWallet.fromAddress(address, utxos)
WalletUtxos ==
    /\ pc = "utxosAt"
    /\ net' = Requested("chain", 1)
    /\ \/ /\ extractPaymentCredential(AddressBook[req.address]).ok
          /\ lucidInstance' = Lucid(req.address)
          /\ pc' = AfterWallet(req.tool)
          /\ UNCHANGED res
       \/ /\ Throw("Could not fetch UTxOs")
          /\ UNCHANGED lucidInstance
    /\ UNCHANGED <<delisted, apiKey, cachedParams, req, lk, asm, call, ret, providerVars>>

\* getSystemParams(): the cache while fresh, else a fetch that fills it
\* (the clock is not followed inside an invocation: a populated cache may
\* have expired, so the fetch is possible whenever the call is made)
GetSystemParams ==
    /\ pc = "params"
    /\ \/ /\ cachedParams # NullParams
          /\ pc' = AfterParams(req.tool)
          /\ UNCHANGED <<cachedParams, net, res>>
       \/ /\ net' = Requested("params", 1)
          /\ \/ /\ cachedParams' = DeployedParams
                /\ pc' = AfterParams(req.tool)
                /\ UNCHANGED res
             \/ /\ Throw("Failed to load system params")
                /\ UNCHANGED cachedParams
    /\ UNCHANGED <<delisted, apiKey, lucidInstance, req, lk, asm, call, ret, providerVars>>

\* the chain query behind a lookup rejected
Upstream == [st |-> "err", err |-> "upstream error"]

\* how a lookup may end: the query rejects, or the locator runs on its answer
Outcomes(tool, kind, asset) ==
    {Upstream} \cup {Locate(tool, kind, asset, utxos) : utxos \in Answers(kind)}

\* lucid.utxosByOutRef for the account record named by the request
AccountLookup ==
    /\ pc = "account"
    /\ net' = Requested("chain", 1)
    /\ \E l \in Outcomes(req.tool, "account", req.asset) :
            /\ lk' = [lk EXCEPT !["account"] = l]
            /\ IF l.st = "ok"
               THEN pc' = AfterAccount(req.tool) /\ UNCHANGED res
               ELSE Throw(l.err)
    /\ UNCHANGED <<delisted, apiKey, lucidInstance, cachedParams, req, asm, call, ret, providerVars>>

\* the builder calls its locators inside one Promise.all: every query goes out
IssuePhase1 ==
    /\ pc = "issue1"
    /\ lk' = [k \in LookupKinds |-> IF k \in Phase1(req.tool) THEN Pending ELSE lk[k]]
    /\ net' = Requested("chain", Cardinality(Phase1(req.tool)))
    /\ pc' = "await1"
    /\ UNCHANGED <<delisted, apiKey, lucidInstance, cachedParams, req, asm, res, call, ret, providerVars>>

\* one of the pending queries answers and its locator finishes; a locator
\* that throws rejects the Promise.all at once, and the handler's catch runs
ResolveLookup ==
    /\ pc = "await1"
    /\ \E k \in Phase1(req.tool) :
        /\ lk[k] = Pending
        /\ \E l \in Outcomes(req.tool, k, req.asset) :
            /\ lk' = [lk EXCEPT ![k] = l]
            /\ IF l.st = "err" THEN Throw(l.err) ELSE UNCHANGED <<pc, res>>
    /\ UNCHANGED <<delisted, apiKey, lucidInstance, cachedParams, req, asm, net, call, ret, providerVars>>

Settled(kinds) == \A k \in kinds : lk[k].st = "ok"

\* Promise.all is fulfilled by all the locators; leverage_cdp then refuses an
\* empty list of LRP positions
JoinPhase1 ==
    /\ pc = "await1"
    /\ Settled(Phase1(req.tool))
    /\ IF req.tool \in LeverageTools /\ lk["lrps"].length = 0
       THEN Throw("No LRP positions found on-chain")
       ELSE pc' = AfterLookups(req.tool) /\ UNCHANGED res
    /\ UNCHANGED <<delisted, apiKey, lucidInstance, cachedParams, req, lk, asm, net, call, ret, providerVars>>

\* parseIAssetDatumOrThrow(getInlineDatumOrThrow(utxo)) of the mint/burn oracle finders
DatumParses(utxo) == utxo.datum = "IAsset"

\* findPriceOracleUtxo and findInterestOracleUtxo are called together on the
\* located iAsset record; a delisted price source rejects before any query
IssuePhase2 ==
    /\ pc = "issue2"
    /\ LET iasset == LocatedIAsset(lk["iasset"])
           price == IF DatumParses(iasset) THEN findPriceOracleUtxo(iasset)
                    ELSE [st |-> "err", err |-> "datum does not parse"]
           interest == IF DatumParses(iasset) THEN Pending
                       ELSE [st |-> "err", err |-> "datum does not parse"]
           queries == Cardinality({x \in {<<"p", price>>, <<"i", interest>>} : x[2] = Pending})
       IN  /\ lk' = [lk EXCEPT !["priceOracle"] = price, !["interestOracle"] = interest]
           /\ net' = Requested("chain", queries)
           /\ IF price.st = "err" THEN Throw(price.err)
              ELSE pc' = "await2" /\ UNCHANGED res
    /\ UNCHANGED <<delisted, apiKey, lucidInstance, cachedParams, req, asm, call, ret, providerVars>>

OracleKinds == {"priceOracle", "interestOracle"}

\* lucid.utxoByUnit(oracleUnit): the oracle record, or a rejection
ResolveOracle ==
    /\ pc = "await2"
    /\ \E k \in OracleKinds :
        /\ lk[k] = Pending
        /\ \E l \in {Upstream, [st |-> "ok"]} :
            /\ lk' = [lk EXCEPT ![k] = l]
            /\ IF l.st = "err" THEN Throw(l.err) ELSE UNCHANGED <<pc, res>>
    /\ UNCHANGED <<delisted, apiKey, lucidInstance, cachedParams, req, asm, net, call, ret, providerVars>>

JoinPhase2 ==
    /\ pc = "await2"
    /\ Settled(OracleKinds)
    /\ pc' = "assemble"
    /\ UNCHANGED res
    /\ UNCHANGED <<delisted, apiKey, lucidInstance, cachedParams, req, lk, asm, net, call, ret, providerVars>>

\* start_interest_oracle spreads the result and adds the minted asset class
Response(tool, result) ==
    IF tool = "start_interest_oracle"
    THEN [k \in DOMAIN result \cup {"oracleAssetClass"} |->
            IF k = "oracleAssetClass" THEN "assetClass" ELSE result[k]]
    ELSE result

\* the completed transaction as the SDK hands it back
CompletedTx == [cbor |-> "cbor", hash |-> "hash", fee |-> "fee"]

\* the arguments are evaluated (BigInt of the amount strings), then the SDK
\* builder is awaited
Assemble ==
    /\ pc = "assemble"
    /\ IF req.tool \in AmountTools /\ ~BigIntParses(req.amount)
       THEN Throw("Cannot convert to a BigInt") /\ UNCHANGED asm
       ELSE /\ asm' = [asm EXCEPT !.builder = TRUE]
            /\ \/ pc' = "complete" /\ UNCHANGED res
               \/ Throw("transaction builder failed")
    /\ UNCHANGED <<delisted, apiKey, lucidInstance, cachedParams, req, lk, net, call, ret, providerVars>>

\* txBuilder.complete(), then buildUnsignedTx and the handler return
Complete ==
    /\ pc = "complete"
    /\ asm' = [asm EXCEPT !.complete = TRUE]
    /\ \/ /\ res' = SuccessResult(Response(req.tool,
                                          UnsignedTxResult(CompletedTx, TxSummary(req))))
          /\ pc' = "done"
       \/ Throw("transaction could not be completed")
    /\ UNCHANGED <<delisted, apiKey, lucidInstance, cachedParams, req, lk, net, call, ret, providerVars>>

(***************************************************************************)
(* Owner-scoped reads: canonicalise the owner, then ask the indexer.       *)
(***************************************************************************)
\* get_order_book forwards its owners to the indexer as given
UncanonicalisedReads == {"get_order_book"}
ReadTools == OwnerReadTools \cup UncanonicalisedReads

\* the indexer requests one read makes (analyze_cdp_health: loans and assets)
IndexerRequests(tool) == IF tool = "analyze_cdp_health" THEN 2 ELSE 1

StartRead ==
    /\ pc = "idle"
    /\ \E t \in ReadTools, a \in DOMAIN AddressBook :
        req' = [tool |-> t, address |-> a, asset |-> "none", amount |-> <<"none">>]
    /\ pc' = "canon"
    /\ lk' = NoLookups
    /\ asm' = NoAssembly
    /\ net' = NoRequests
    /\ res' = None
    /\ UNCHANGED <<delisted, apiKey, lucidInstance, cachedParams, call, ret, providerVars>>

\* const pkh = extractPaymentCredential(owner), inside the handler's try
Canonicalise ==
    /\ pc = "canon"
    /\ LET pkh == extractPaymentCredential(AddressBook[req.address])
       IN  IF req.tool \in UncanonicalisedReads \/ pkh.ok
           THEN pc' = "fetch" /\ UNCHANGED res
           ELSE Throw(pkh.err)
    /\ UNCHANGED <<delisted, apiKey, lucidInstance, cachedParams, req, lk, asm, net, call, ret, providerVars>>

\* getIndexerClient() and the awaited request(s); the data filtered by owner
FetchRecords ==
    /\ pc = "fetch"
    /\ net' = Requested("indexer", IndexerRequests(req.tool))
    /\ \/ /\ res' = SuccessResult([data |-> "records", owner |-> req.address])
          /\ pc' = "done"
       \/ Throw("Request failed")
    /\ UNCHANGED <<delisted, apiKey, lucidInstance, cachedParams, req, lk, asm, call, ret, providerVars>>

(***************************************************************************)
(* The tools IndigoMcpServer registers: a wrapper around async handlers.   *)
(***************************************************************************)
\* paymentCredentialOf(address).hash of the chain library
paymentCredentialOf(input) ==
    IF HasAddressPrefix(input) /\ input.valid
    THEN Ok(ToHex(ByteSlice(input.bytes, PkhFirst, PkhEnd)))
    ELSE Err("Invalid address")

\* the axios.get calls a handler awaits one after the other
LegacyGets(tool) == IF tool \in {"indigo_cdps", "indigo_cdps_at_address"} THEN 3 ELSE 1

\* what the registered callback hands back when the handler's promise rejects:
\* `return tool.handler(...)` is not awaited inside the try
RejectedPromise(e) == [rejected |-> e]

StartLegacy ==
    /\ pc = "idle"
    /\ \E t \in LegacyTools, a \in {"valid", "malformed", "none"} :
        /\ (a = "none") = (t # "indigo_cdps_at_address")
        /\ req' = [tool |-> t, address |-> a, asset |-> "none", amount |-> <<"none">>]
    /\ pc' = "legacy"
    /\ lk' = NoLookups
    /\ asm' = NoAssembly
    /\ net' = NoRequests
    /\ res' = None
    /\ UNCHANGED <<delisted, apiKey, lucidInstance, cachedParams, call, ret, providerVars>>

\* the callback calls the handler, which runs up to its first await
LegacyCall ==
    /\ pc = "legacy"
    /\ IF /\ req.tool = "indigo_cdps_at_address"
          /\ ~paymentCredentialOf(AddressBook[req.address]).ok
       THEN /\ res' = RejectedPromise(paymentCredentialOf(AddressBook[req.address]).err)
            /\ pc' = "done"
            /\ UNCHANGED net
       ELSE /\ net' = Requested("indexer", 1)
            /\ pc' = "legacyAwait"
            /\ UNCHANGED res
    /\ UNCHANGED <<delisted, apiKey, lucidInstance, cachedParams, req, lk, asm, call, ret, providerVars>>

\* the outstanding axios.get settles
LegacySettle ==
    /\ pc = "legacyAwait"
    /\ \/ /\ res' = RejectedPromise("Request failed")
          /\ pc' = "done"
          /\ UNCHANGED net
       \/ /\ net.indexer < LegacyGets(req.tool)
          /\ net' = Requested("indexer", 1)
          /\ UNCHANGED <<pc, res>>
       \/ /\ net.indexer = LegacyGets(req.tool)
          /\ res' = [contents |-> "data"]
          /\ pc' = "done"
          /\ UNCHANGED net
    /\ UNCHANGED <<delisted, apiKey, lucidInstance, cachedParams, req, lk, asm, call, ret, providerVars>>

\* the result has gone back to the client; nothing of the invocation is kept
Respond ==
    /\ pc = "done"
    /\ pc' = "idle"
    /\ req' = None
    /\ lk' = NoLookups
    /\ asm' = NoAssembly
    /\ net' = NoRequests
    /\ res' = None
    /\ UNCHANGED <<delisted, apiKey, lucidInstance, cachedParams, call, ret, providerVars>>

\* resetLucid() and resetSystemParamsCache(), between invocations
ResetLucid ==
    /\ pc = "idle"
    /\ lucidInstance.live \/ \E c \in DOMAIN calls : calls[c].st = "constructing"
    /\ lucidInstance' = NullLucid
    /\ calls' = [c \in DOMAIN calls |-> AcrossReset(calls[c])]
    /\ UNCHANGED <<delisted, apiKey, cachedParams, req, pc, lk, asm, net, res, call, ret,
                   now, cacheTimestamp>>

\* the operator supplies BLOCKFROST_API_KEY to the process
SupplyApiKey ==
    /\ pc = "idle"
    /\ ~apiKey
    /\ apiKey' = TRUE
    /\ UNCHANGED <<delisted, lucidInstance, cachedParams, req, pc, lk, asm, net, res, call, ret,
                   providerVars>>

ResetSystemParamsCache ==
    /\ pc = "idle"
    /\ cachedParams # NullParams
    /\ cachedParams' = NullParams
    /\ cacheTimestamp' = 0
    /\ UNCHANGED <<delisted, apiKey, lucidInstance, req, pc, lk, asm, net, res, call, ret,
                   now, calls>>

Init ==
    /\ delisted \in {{}, {"iUSD"}}
    /\ apiKey \in BOOLEAN
    /\ MachineIdle
    /\ call = None
    /\ ret = None

Next ==
    \/ StartMutating \/ GetLucid \/ WalletUtxos \/ GetSystemParams \/ AccountLookup
    \/ IssuePhase1 \/ ResolveLookup \/ JoinPhase1
    \/ IssuePhase2 \/ ResolveOracle \/ JoinPhase2
    \/ Assemble \/ Complete
    \/ StartRead \/ Canonicalise \/ FetchRecords
    \/ StartLegacy \/ LegacyCall \/ LegacySettle
    \/ Respond \/ ResetLucid \/ ResetSystemParamsCache \/ SupplyApiKey

Spec == Init /\ [][Next]_vars

(***************************************************************************)
(* Properties of the tool invocations (Spec).                              *)
(***************************************************************************)
Invoked(tools) == pc # "idle" /\ req.tool \in tools
Returned(tools) == pc = "done" /\ req.tool \in tools

IsErrorResult(r) == "isError" \in DOMAIN r /\ r.isError = TRUE
ArtifactFields == {"unsignedTx", "txHash", "fee"}
Carries(r, fields) == "content" \in DOMAIN r /\ fields \subseteq DOMAIN r.content
CarriesNone(r, fields) == "content" \in DOMAIN r /\ fields \cap DOMAIN r.content = {}
NeverAssembled == ~asm.builder /\ ~asm.complete

\* the CDP operations that name an asset
CdpAssetOperations ==
    {"open_cdp", "deposit_cdp", "withdraw_cdp", "close_cdp", "mint_cdp", "burn_cdp",
     "redeem_cdp", "freeze_cdp", "liquidate_cdp", "leverage_cdp"}

\* C1: a CDP operation on an asset whose iAsset record has price source
\* Delisted never reaches the SDK builder or complete(), and returns an error.
C1_DelistedNeverAssembled ==
    (Invoked(CdpAssetOperations) /\ req.asset \in delisted)
        => /\ NeverAssembled
           /\ pc = "done" => IsErrorResult(res)

\* C2: once a record lookup of a transaction builder has failed, the SDK
\* builder and complete() have not been and are not invoked, and the handler
\* has returned an error that carries no unsignedTx, txHash or fee.
C2_FailedLookupAborts ==
    (Invoked(MutatingTools) /\ \E k \in LookupKinds : lk[k].st = "err")
        => /\ NeverAssembled
           /\ pc = "done"
           /\ IsErrorResult(res)
           /\ CarriesNone(res, ArtifactFields)

C2_Witness ==
    /\ Returned({"deposit_cdp"})
    /\ lk["iasset"].st = "ok"
    /\ lk["gov"].st = "err"
    /\ IsErrorResult(res)

\* a record at the CDP address that matches the requested asset symbol
MatchesAsset(u, asset) == u.datum = "IAsset" /\ u.assetName = fromText(asset)

\* C3: when the chain returned more than one record matching the requested
\* asset, the iAsset locator of every transaction builder ends in an error.
C3_AmbiguousIAssetIsError ==
    (/\ Invoked(MutatingTools)
     /\ "seen" \in DOMAIN lk["iasset"]
     /\ Cardinality(Matching(lk["iasset"].seen, LAMBDA u : MatchesAsset(u, req.asset))) > 1)
        => lk["iasset"].st = "err"

\* C8: an invocation whose owner or address input does not canonicalise issues
\* no indexer and no chain request, and returns an error.
C8_MalformedIssuesNoRequest ==
    (/\ Invoked(OwnerReadTools \cup MutatingTools)
     /\ ~extractPaymentCredential(AddressBook[req.address]).ok)
        => /\ net.indexer = 0
           /\ net.chain = 0
           /\ pc = "done" => IsErrorResult(res)

\* C9: what a registered tool hands back is never a rejected promise: it is a
\* result, and a failure is a result with isError: true carrying the message of
\* the underlying error.
C9_NothingEscapesTheHandler ==
    pc = "done"
        => /\ "rejected" \notin DOMAIN res
           /\ IsErrorResult(res) => Len(res.content.text) = 2

SuccessShape ==
    /\ "isError" \notin DOMAIN res
    /\ Carries(res, ArtifactFields \cup {"summary"})
    /\ res.content.summary = TxSummary(req)

ErrorShape ==
    /\ IsErrorResult(res)
    /\ CarriesNone(res, ArtifactFields \cup {"summary"})

\* C10: a transaction builder returns exactly one of: the four artifact fields
\* with the summary of this request and no isError flag, or isError: true
\* with none of the artifact fields.
C10_ExactlyOneShape ==
    Returned(MutatingTools) => (SuccessShape /\ ~ErrorShape) \/ (ErrorShape /\ ~SuccessShape)

C10_Witness ==
    /\ Returned({"mint_cdp"})
    /\ asm.complete
    /\ SuccessShape

-----------------------------------------------------------------------------
(* sdk-config: getSystemParams under several callers and a moving clock.    *)
(* A call runs to its return or to its await in one step; the fetch settles *)
(* in a later step, so calls overlap.  The clock moves in whole minutes.    *)

MaxMinutes == 6

Minute == 60 * 1000
CACHE_TTL_MS == 5 * 60 * 1000

\* two callers whose calls may overlap
Callers == {"caller1", "caller2"}

\* cachedParams && now - cacheTimestamp < CACHE_TTL_MS
Fresh_inclusive(params, timestamp, t) ==
    params # NullParams /\ t - timestamp <= CACHE_TTL_MS

Fresh(params, timestamp, t) ==
    params # NullParams /\ t - timestamp < CACHE_TTL_MS

\* what a call saw when it was made: the cache, its timestamp and Date.now()
Entry == [params |-> cachedParams, timestamp |-> cacheTimestamp, now |-> now]

Settled_call(c) == calls[c].st \in {"idle", "returned", "rejected"}

\* getSystemParams() up to `return cachedParams` or to the await of the fetch
CallGetSystemParams(c) ==
    /\ Settled_call(c)
    /\ IF Fresh(cachedParams, cacheTimestamp, now)
       THEN calls' = [calls EXCEPT ![c] =
                        [st |-> "returned", entry |-> Entry, fetches |-> 0,
                         fetched |-> NullParams, stored |-> NullParams,
                         value |-> cachedParams]]
       ELSE calls' = [calls EXCEPT ![c] =
                        [st |-> "fetching", entry |-> Entry, fetches |-> 1,
                         fetched |-> NullParams, stored |-> NullParams,
                         value |-> NullParams]]
    /\ UNCHANGED <<machineVars, pureVars, now, cacheTimestamp>>

\* loadSystemParamsFromUrl resolved: fill the cache, stamp it with the call's
\* own Date.now(), return the cache
FetchResolves(c) ==
    /\ calls[c].st = "fetching"
    /\ \E doc \in ParamsDocs :
        /\ cachedParams' = doc
        /\ cacheTimestamp' = calls[c].entry.now
        /\ calls' = [calls EXCEPT ![c] =
                        [@ EXCEPT !.st = "returned", !.fetched = doc,
                                  !.stored = cachedParams', !.value = cachedParams']]
    /\ UNCHANGED <<delisted, apiKey, lucidInstance, req, pc, lk, asm, net, res, pureVars, now>>

\* a slip: the failed call stamps the cache with its own Date.now()
FetchRejects_stampsCache(c) ==
    /\ calls[c].st = "fetching"
    /\ calls' = [calls EXCEPT ![c] = [@ EXCEPT !.st = "rejected"]]
    /\ cacheTimestamp' = calls[c].entry.now
    /\ UNCHANGED <<machineVars, pureVars, now>>

\* loadSystemParamsFromUrl rejected: the call rejects, the cache is untouched
FetchRejects(c) ==
    /\ calls[c].st = "fetching"
    /\ calls' = [calls EXCEPT ![c] = [@ EXCEPT !.st = "rejected"]]
    /\ UNCHANGED <<machineVars, pureVars, now, cacheTimestamp>>

\* time passes
Tick ==
    /\ now < MaxMinutes * Minute
    /\ now' = now + Minute
    /\ UNCHANGED <<machineVars, pureVars, cacheTimestamp, calls>>

CacheInit ==
    /\ delisted = {}
    /\ apiKey = TRUE
    /\ lucidInstance = NullLucid
    /\ cachedParams = NullParams
    /\ cacheTimestamp = 0
    /\ now = 0
    /\ calls = [c \in Callers |-> NotCalled]
    /\ req = None
    /\ pc = "idle"
    /\ lk = NoLookups
    /\ asm = NoAssembly
    /\ net = NoRequests
    /\ res = None
    /\ call = None
    /\ ret = None

CacheNext ==
    \/ \E c \in Callers : CallGetSystemParams(c)
    \/ \E c \in Callers : FetchResolves(c)
    \/ \E c \in Callers : FetchRejects(c)
    \/ Tick
    \/ ResetSystemParamsCache

SpecCache == CacheInit /\ [][CacheNext]_vars

Finished(c) == calls[c].st \in {"returned", "rejected"}

\* C11: a getSystemParams call returns the cached parameters without a fetch
\* exactly when, as the call was made, the cache was populated and less than
\* five minutes had passed since its timestamp; any other call makes exactly
\* one fetch and, when the fetch delivers, stores the document and returns it.
C11_CacheTtlContract ==
    \A c \in DOMAIN calls :
        Finished(c) =>
            LET k == calls[c]
                populated == k.entry.params # NullParams
                elapsed == k.entry.now - k.entry.timestamp
            IN  IF populated /\ elapsed < 5 * Minute
                THEN /\ k.st = "returned"
                     /\ k.fetches = 0
                     /\ k.value = k.entry.params
                ELSE /\ k.fetches = 1
                     /\ k.st = "returned" =>
                            /\ k.fetched \in ParamsDocs
                            /\ k.stored = k.fetched
                            /\ k.value = k.fetched

\* one call was served from a populated cache, another refetched when exactly
\* five minutes had passed
C11_Witness ==
    \E c, d \in DOMAIN calls :
        /\ calls[c].st = "returned" /\ calls[c].fetches = 0
        /\ calls[d].st = "returned" /\ calls[d].fetches = 1
        /\ calls[d].entry.params # NullParams
        /\ calls[d].entry.now - calls[d].entry.timestamp = CACHE_TTL_MS

-----------------------------------------------------------------------------
(* lucid-provider: getLucid under callers whose calls overlap.  A call runs *)
(* to its return, its throw or its await of Lucid(...) in one step; the     *)
(* construction settles in a later step.                                    *)

\* three tool invocations whose getLucid calls may overlap
LucidCallers == Callers \cup {"caller3"}

\* handles are told apart by a number no handle still referenced carries
HandleIds == 1 .. Cardinality(LucidCallers) + 1

NewHandle(id) == [live |-> TRUE, wallet |-> "none", id |-> id]

Referenced ==
    {lucidInstance} \cup {calls[c].value : c \in {d \in DOMAIN calls : calls[d].st = "returned"}}

FreshHandle == NewHandle(CHOOSE i \in HandleIds : NewHandle(i) \notin Referenced)

\* getLucid() up to `return lucidInstance`, the throw, or the await
CallGetLucid(c) ==
    /\ Settled_call(c)
    /\ calls' = [calls EXCEPT ![c] =
            IF lucidInstance.live
            THEN [st |-> "returned", built |-> 0, value |-> lucidInstance, straddled |-> FALSE]
            ELSE IF ~apiKey
            THEN [st |-> "rejected", built |-> 0, value |-> NullLucid, straddled |-> FALSE]
            ELSE [st |-> "constructing", built |-> 0, value |-> NullLucid, straddled |-> FALSE]]
    /\ UNCHANGED <<machineVars, pureVars, now, cacheTimestamp>>

\* Lucid(new Blockfrost(url, apiKey), network) resolved: keep the handle in
\* lucidInstance and return lucidInstance
ConstructResolves(c) ==
    /\ calls[c].st = "constructing"
    /\ lucidInstance' = FreshHandle
    /\ calls' = [calls EXCEPT ![c] =
                    [@ EXCEPT !.st = "returned", !.built = 1, !.value = lucidInstance']]
    /\ UNCHANGED <<delisted, apiKey, cachedParams, req, pc, lk, asm, net, res, pureVars,
                   now, cacheTimestamp>>

\* Lucid(...) rejected
ConstructRejects(c) ==
    /\ calls[c].st = "constructing"
    /\ calls' = [calls EXCEPT ![c] = [@ EXCEPT !.st = "rejected"]]
    /\ UNCHANGED <<machineVars, pureVars, now, cacheTimestamp>>

LucidInit ==
    /\ delisted = {}
    /\ apiKey \in BOOLEAN
    /\ lucidInstance = NullLucid
    /\ cachedParams = NullParams
    /\ cacheTimestamp = 0
    /\ now = 0
    /\ calls = [c \in LucidCallers |-> NotCalled]
    /\ req = None
    /\ pc = "idle"
    /\ lk = NoLookups
    /\ asm = NoAssembly
    /\ net = NoRequests
    /\ res = None
    /\ call = None
    /\ ret = None

LucidNext ==
    \/ \E c \in LucidCallers : CallGetLucid(c)
    \/ \E c \in LucidCallers : ConstructResolves(c)
    \/ \E c \in LucidCallers : ConstructRejects(c)
    \/ ResetLucid
    \/ SupplyApiKey

SpecLucid == LucidInit /\ [][LucidNext]_vars

\* the getLucid calls that returned with no resetLucid since they were made
ReturnedSinceReset ==
    {c \in DOMAIN calls : calls[c].st = "returned" /\ ~calls[c].straddled}

\* C12: among getLucid calls with no resetLucid in between, at most one
\* constructs a handle and all of them return the same handle.
C12_HandleConstructedOnce ==
    /\ \A c, d \in ReturnedSinceReset : calls[c].value = calls[d].value
    /\ Cardinality({c \in ReturnedSinceReset : calls[c].built = 1}) <= 1

-----------------------------------------------------------------------------
(* The credential *)

ConfigurationError(tool) == ErrorResult(tool, MissingKey)

\* C13: without BLOCKFROST_API_KEY a transaction builder ends at getLucid with
\* the configuration error, having issued no request and assembled nothing,
\* and the handle stays unset; with the key no builder ends in that error;
\* a read-only tool never ends in it and never constructs the handle.
C13_MissingKeyFailsFast ==
    /\ (~apiKey /\ Invoked(MutatingTools)) =>
            /\ pc = "getLucid" \/ (pc = "done" /\ res = ConfigurationError(req.tool))
            /\ net = NoRequests
            /\ asm = NoAssembly
            /\ lucidInstance = NullLucid
    /\ (apiKey /\ Returned(MutatingTools)) => res # ConfigurationError(req.tool)
    /\ Returned(ReadTools \cup LegacyTools) =>
            /\ res # ConfigurationError(req.tool)
            /\ net.init = 0
            /\ ~apiKey => lucidInstance = NullLucid

\* a builder was refused for want of the key
C13_Witness ==
    /\ ~apiKey
    /\ Returned(MutatingTools)
    /\ res = ConfigurationError(req.tool)

-----------------------------------------------------------------------------
(* Order of the lookups inside one builder *)

\* the lookups of a builder whose arguments come from the request and the
\* protocol parameters alone
IndependentLookups(tool) ==
    Phase1(tool) \cup
        (IF tool \in AccountFirstTools \cup AccountAfterParamsTools THEN {"account"} ELSE {})

Issued(k) == lk[k] # Unused
Awaited(k) == lk[k].st \in {"ok", "err"}

\* C14: once the result of any independent lookup of a builder has been
\* awaited, all its independent lookups have been issued; an oracle lookup is
\* issued only when the iAsset lookup has resolved.
C14_SiblingsIssuedTogether ==
    Invoked(MutatingTools) =>
        /\ (\E k \in IndependentLookups(req.tool) : Awaited(k)) =>
                \A k \in IndependentLookups(req.tool) : Issued(k)
        /\ \A o \in OracleKinds : Issued(o) => lk["iasset"].st = "ok"

-----------------------------------------------------------------------------
(* handlers: handleCdps over the indexer's answers to /asset-interest-rates *)
(* and /cdps (every asset has a price record)                               *)

MaxSlot == 2

InterestRecords == [asset : Assets, slot : 1 .. MaxSlot]

\* [0] of an empty array
UndefinedRecord == [asset |-> "undefined", slot |-> 0]

\* interestRates.filter((record) => record.asset === cdp.asset)
\*              .sort((a, b) => b.slot - a.slot)[0]
LatestInterestRecord(interestRates, asset) ==
    LET own == {r \in interestRates : r.asset = asset}
    IN  IF own = {} THEN UndefinedRecord
        ELSE CHOOSE r \in own : \A q \in own : q.slot <= r.slot

ReadOfUndefined == "TypeError: Cannot read properties of undefined (reading 'unitary_interest')"

\* formatCdp: the interest record's fields are read to build the argument of
\* cdpAccruedAssetInterest, before that function can test the argument
formatCdp(asset, interestRecord, sdkAccrued) ==
    IF interestRecord = UndefinedRecord
    THEN Err(ReadOfUndefined)
    ELSE [ok |-> TRUE,
          value |-> [asset |-> asset,
                     outstandingInterest |-> cdpAccruedAssetInterest(TRUE, sdkAccrued)]]

\* handleCdps: response.data.map(...) inside the promise the handler returns
handleCdps(cdps, interestRates, sdkAccrued) ==
    LET formatted == [i \in 1 .. Len(cdps) |->
                        formatCdp(cdps[i], LatestInterestRecord(interestRates, cdps[i]),
                                  sdkAccrued)]
    IN  IF \E i \in 1 .. Len(cdps) : ~formatted[i].ok
        THEN RejectedPromise(ReadOfUndefined)
        ELSE [contents |-> [i \in 1 .. Len(cdps) |-> formatted[i].value]]

CdpsCalls ==
    {[fn |-> "handleCdps", cdps |-> c, interestRates |-> r, accrued |-> a] :
        c \in SeqsUpTo(Assets, MaxLoans), r \in SUBSET InterestRecords,
        a \in AccruedValues \ {0}}

CdpsInit ==
    /\ apiKey = FALSE
    /\ delisted = {}
    /\ MachineIdle
    /\ call \in CdpsCalls
    /\ ret = None

ApplyHandleCdps ==
    /\ call.fn = "handleCdps"
    /\ ret = None
    /\ ret' = handleCdps(call.cdps, call.interestRates, call.accrued)
    /\ UNCHANGED <<call, machineVars, providerVars>>

CdpsNext == ApplyHandleCdps

SpecCdps == CdpsInit /\ [][CdpsNext]_vars

\* C15: handleCdps answers with one entry per position, and the entry of a
\* position whose asset has no interest record reports accrued interest zero.
C15_MissingInterestIsZero ==
    (call.fn = "handleCdps" /\ ret # None) =>
        /\ "contents" \in DOMAIN ret
        /\ Len(ret.contents) = Len(call.cdps)
        /\ \A i \in 1 .. Len(call.cdps) :
                LatestInterestRecord(call.interestRates, call.cdps[i]) = UndefinedRecord
                    => ret.contents[i].outstandingInterest = 0

-----------------------------------------------------------------------------
(* The collector and treasury locators, per builder, on a given number of   *)
(* records at the validator address                                         *)

PoolKinds == {"collector", "treasury"}

PoolLookupCalls ==
    {[fn |-> "findPoolUtxo", tool |-> t, kind |-> k, length |-> n] :
        t \in MutatingTools, k \in PoolKinds, n \in PoolCounts}

PoolInit ==
    /\ apiKey = TRUE
    /\ delisted = {}
    /\ MachineIdle
    /\ call \in {c \in PoolLookupCalls : c.kind \in Phase1(c.tool)}
    /\ ret = None

\* the locator the builder's module defines for the record kind
ApplyPoolLocator ==
    /\ call.fn = "findPoolUtxo"
    /\ ret = None
    /\ ret' = Locate(call.tool, call.kind, "none", call.length)
    /\ UNCHANGED <<call, machineVars, providerVars>>

PoolNext == ApplyPoolLocator

SpecPool == PoolInit /\ [][PoolNext]_vars

\* C16: a collector or treasury lookup of any builder returns one of the
\* records when at least one exists at the address and fails only when
\* there is none.
C16_AnyPoolRecordWillDo ==
    (call.fn = "findPoolUtxo" /\ ret # None) =>
        IF call.length >= 1
        THEN ret.st = "ok" /\ ret.idx \in 1 .. call.length
        ELSE ret.st = "err"

-----------------------------------------------------------------------------
(* The iAsset scan over candidates with unparseable datums *)

\* the builders whose findIAssetUtxo parses each candidate's datum
ScanningTools ==
    {t \in MutatingTools \ (MintBurnTools \cup SpRequestTools) : "iasset" \in Phase1(t)}

ScannedMatches == Matching(lk["iasset"].seen, LAMBDA u : MatchesAsset(u, req.asset))

-----------------------------------------------------------------------------
(* cdp-tools: the analyze_cdp_health handler over the indexer's loans       *)

\* the /assets/ record of every asset of the loans
ListedAsset == [price |-> RatInt(1), minRatio |-> 150, liquidation |-> 125]

\* a loan of the indexer with its amounts
PositionOf(l) == [collateral |-> 2 * Million, minted |-> Million]

NoPositionsMessage == "No CDPs found for this owner"
HealthNote == "Collateral ratios are approximate and do not account for accrued interest"

\* the handler of analyze_cdp_health (cdp-tools.ts 139-237)
analyze_cdp_health(owner, loans, indexerUp) ==
    LET pkh == extractPaymentCredential(owner)
    IN  IF ~pkh.ok THEN ErrorResult("analyze_cdp_health", pkh.err)
        ELSE IF ~indexerUp THEN ErrorResult("analyze_cdp_health", "Request failed")
        ELSE LET own == OwnerFilter(loans, pkh.val)
             IN  IF Len(own) = 0
                 THEN SuccessResult([message |-> NoPositionsMessage, owner |-> pkh.val])
                 ELSE SuccessResult(
                        [owner |-> pkh.val,
                         cdps |-> [i \in 1 .. Len(own) |->
                                     AnalyzeLoan(PositionOf(own[i]), ListedAsset)],
                         note |-> HealthNote])

HealthQueryCalls ==
    {[fn |-> "analyze_cdp_health handler", owner |-> o, loans |-> ls, indexerUp |-> up] :
        o \in MalformedInputs \cup {TextInput(c) : c \in Credentials}
              \cup {AddressEmbedding(c, h, st) :
                        c \in Credentials, h \in HeaderBytes, st \in StakeParts},
        ls \in LoanLists, up \in BOOLEAN}

HealthQueryInit ==
    /\ apiKey = FALSE
    /\ delisted = {}
    /\ MachineIdle
    /\ call \in HealthQueryCalls
    /\ ret = None

ApplyHealthQuery ==
    /\ call.fn = "analyze_cdp_health handler"
    /\ ret = None
    /\ ret' = analyze_cdp_health(call.owner, call.loans, call.indexerUp)
    /\ UNCHANGED <<call, machineVars, providerVars>>

HealthQueryNext == ApplyHealthQuery

SpecHealthQuery == HealthQueryInit /\ [][HealthQueryNext]_vars

\* the 28 bytes of the owner an input denotes, as the indexer writes them
CanonicalOwner(input) ==
    IF input.form = "text" THEN ToHex(HexToBytes(input.chars))
    ELSE ToHex(ByteSlice(input.bytes, PkhFirst, PkhEnd))

DenotesOwner(input) == IsCredentialHex(input) \/ (HasAddressPrefix(input) /\ input.valid)

\* C18: analyze_cdp_health for an owner none of whose loans are open answers,
\* when the indexer answers, with a result that is not an error and whose
\* payload is the no-positions message with the canonical owner, without a
\* cdps array.
C18_NoPositionsPayload ==
    (/\ call.fn = "analyze_cdp_health handler"
     /\ ret # None
     /\ call.indexerUp
     /\ DenotesOwner(call.owner)
     /\ OwnerFilter(call.loans, CanonicalOwner(call.owner)) = <<>>)
        => /\ ~IsErrorResult(ret)
           /\ DOMAIN ret.content = {"message", "owner"}
           /\ ret.content.message = NoPositionsMessage
           /\ ret.content.owner = CanonicalOwner(call.owner)

-----------------------------------------------------------------------------
(* Amount strings: BigInt(amount) for the SDK and the summary of the result *)

MaxAmountLen == 3

AmountChars == {"0", "1", "9", "-", "."}
AmountTexts == SeqsUpTo(AmountChars, MaxAmountLen)

RECURSIVE DigitsValue(_)
\* the digits read left to right, as StringToBigInt accumulates them
DigitsValue(digits) ==
    IF Len(digits) = 0 THEN 0
    ELSE 10 * DigitsValue(SubSeq(digits, 1, Len(digits) - 1)) + NibbleOf(digits[Len(digits)])

\* BigInt(text) with the sign lost
BigIntValue_unsigned(text) ==
    IF Len(text) > 0 /\ text[1] \in {"+", "-"}
    THEN DigitsValue(SubSeq(text, 2, Len(text)))
    ELSE DigitsValue(text)

\* BigInt(text) for a text BigIntParses admits
BigIntValue(text) ==
    IF Len(text) > 0 /\ text[1] = "-" THEN 0 - DigitsValue(SubSeq(text, 2, Len(text)))
    ELSE IF Len(text) > 0 /\ text[1] = "+" THEN DigitsValue(SubSeq(text, 2, Len(text)))
    ELSE DigitsValue(text)

\* the builders whose summary description quotes the amount
DescribedAmountTools ==
    {"open_cdp", "deposit_cdp", "withdraw_cdp", "mint_cdp", "burn_cdp", "redeem_cdp",
     "leverage_cdp", "feed_interest_oracle", "open_lrp", "adjust_lrp"}

\* `${verb} ${amount} ...`
Description(tool, text) ==
    IF tool \in DescribedAmountTools THEN <<tool, text>> ELSE <<tool>>

\* a builder from BigInt(amount) to the result, every lookup having succeeded:
\* the integer handed to the SDK builder and the summary handed back
AmountThroughBuilder(tool, text) ==
    IF ~BigIntParses(text)
    THEN [ok |-> FALSE, result |-> ErrorResult(tool, "Cannot convert to a BigInt")]
    ELSE [ok |-> TRUE,
          passed |-> BigIntValue(text),
          result |-> SuccessResult(
                [summary |-> [type |-> tool,
                              description |-> Description(tool, text),
                              inputs |-> [amount |-> text]]])]

AmountCalls ==
    {[fn |-> "BigInt(amount)", tool |-> t, amount |-> a] :
        t \in AmountTools, a \in AmountTexts}

AmountInit ==
    /\ apiKey = TRUE
    /\ delisted = {}
    /\ MachineIdle
    /\ call \in AmountCalls
    /\ ret = None

ApplyAmount ==
    /\ call.fn = "BigInt(amount)"
    /\ ret = None
    /\ ret' = AmountThroughBuilder(call.tool, call.amount)
    /\ UNCHANGED <<call, machineVars, providerVars>>

AmountNext == ApplyAmount

SpecAmount == AmountInit /\ [][AmountNext]_vars

RECURSIVE Pow10(_)
Pow10(k) == IF k = 0 THEN 1 ELSE 10 * Pow10(k - 1)

\* the integer a signed decimal numeral denotes: the sum of its digits by place
Denoted(text) ==
    LET signed == Len(text) > 0 /\ text[1] \in {"+", "-"}
        first == IF signed THEN 2 ELSE 1
        places == {i \in first .. Len(text) : TRUE}
        PlaceValue(i) == NibbleOf(text[i]) * Pow10(Len(text) - i)
        RECURSIVE Sum(_)
        Sum(S) == IF S = {} THEN 0
                  ELSE LET i == CHOOSE j \in S : TRUE IN PlaceValue(i) + Sum(S \ {i})
        magnitude == Sum(places)
    IN  IF signed /\ text[1] = "-" THEN 0 - magnitude ELSE magnitude

-----------------------------------------------------------------------------
(* cdp-tools: get_all_cdps and its pagination *)

MaxListed == 4
MaxLimit == 3
DefaultLimit == 50
DefaultOffset == 0

\* an optional argument: absent, or one value
Absent == {}
Given(v) == {v}
OrElse(opt, default) == IF opt = Absent THEN default ELSE CHOOSE v \in opt : TRUE

\* the /loans/ answer: loans told apart by their position in the answer
LoanAnswers ==
    UNION {{[i \in 1 .. n |-> [id |-> i, asset |-> assets[i]]] : assets \in [1 .. n -> Assets]} :
                n \in 0 .. MaxListed}

\* loans.filter((l) => l.asset === asset) when an asset is given
AssetFilter(loans, asset) ==
    IF asset = Absent THEN loans
    ELSE SelectSeq(loans, LAMBDA l : Given(l.asset) = asset)

\* the handler with slice(offset, limit)
get_all_cdps_sliceToLimit(loans, asset, limit, offset, indexerUp) ==
    IF ~indexerUp THEN ErrorResult("get_all_cdps", "Request failed")
    ELSE LET filtered == AssetFilter(loans, asset)
             effectiveLimit == OrElse(limit, DefaultLimit)
             effectiveOffset == OrElse(offset, DefaultOffset)
         IN  SuccessResult([cdps |-> ByteSlice(filtered, effectiveOffset, effectiveLimit),
                            total |-> Len(filtered),
                            limit |-> effectiveLimit, offset |-> effectiveOffset])

\* the handler of get_all_cdps (cdp-tools.ts 40-75)
get_all_cdps(loans, asset, limit, offset, indexerUp) ==
    IF ~indexerUp THEN ErrorResult("get_all_cdps", "Request failed")
    ELSE LET filtered == AssetFilter(loans, asset)
             total == Len(filtered)
             effectiveLimit == OrElse(limit, DefaultLimit)
             effectiveOffset == OrElse(offset, DefaultOffset)
             paginated == ByteSlice(filtered, effectiveOffset, effectiveOffset + effectiveLimit)
         IN  SuccessResult([cdps |-> paginated, total |-> total,
                            limit |-> effectiveLimit, offset |-> effectiveOffset])

AllCdpsCalls ==
    {[fn |-> "get_all_cdps", loans |-> ls, asset |-> a, limit |-> l, offset |-> o,
      indexerUp |-> up] :
        ls \in LoanAnswers,
        a \in {Absent} \cup {Given(x) : x \in Assets},
        l \in {Absent} \cup {Given(n) : n \in 1 .. MaxLimit},
        o \in {Absent} \cup {Given(n) : n \in 0 .. MaxListed},
        up \in BOOLEAN}

AllCdpsInit ==
    /\ apiKey = FALSE
    /\ delisted = {}
    /\ MachineIdle
    /\ call \in AllCdpsCalls
    /\ ret = None

ApplyGetAllCdps ==
    /\ call.fn = "get_all_cdps"
    /\ ret = None
    /\ ret' = get_all_cdps(call.loans, call.asset, call.limit, call.offset, call.indexerUp)
    /\ UNCHANGED <<call, machineVars, providerVars>>

AllCdpsNext == ApplyGetAllCdps

SpecAllCdps == AllCdpsInit /\ [][AllCdpsNext]_vars

\* the loans of the requested asset, in the order of the answer
RequestedLoans(loans, asset) ==
    SelectSeq(loans, LAMBDA l : asset = Absent \/ l.asset \in asset)

\* the elements at positions [off, off + lim) of a list, counted from zero
Window(list, off, lim) ==
    LET n == IF off >= Len(list) THEN 0
             ELSE IF lim < Len(list) - off THEN lim ELSE Len(list) - off
    IN  [j \in 1 .. n |-> list[off + j]]

RECURSIVE PagesFrom(_, _, _, _)
\* the pages at offsets k x lim, (k + 1) x lim, ... one after the other
PagesFrom(k, loans, asset, lim) ==
    IF k * lim >= Len(RequestedLoans(loans, asset)) THEN <<>>
    ELSE get_all_cdps(loans, asset, Given(lim), Given(k * lim), TRUE).content.cdps
            \o PagesFrom(k + 1, loans, asset, lim)

\* C20: get_all_cdps answers with the elements at positions
\* [offset, offset + limit) of the asset-filtered loans in their order, limit
\* 50 and offset 0 when not given; total is the length of the filtered list;
\* every returned loan has the requested asset; the pages at offsets 0, limit,
\* 2 x limit, ... put end to end are the filtered list.
C20_PagesPartition ==
    (call.fn = "get_all_cdps" /\ ret # None /\ call.indexerUp) =>
        LET wanted == RequestedLoans(call.loans, call.asset)
            lim == IF call.limit = Absent THEN 50 ELSE CHOOSE n \in call.limit : TRUE
            off == IF call.offset = Absent THEN 0 ELSE CHOOSE n \in call.offset : TRUE
        IN  /\ ~IsErrorResult(ret)
            /\ ret.content.cdps = Window(wanted, off, lim)
            /\ ret.content.total = Len(wanted)
            /\ ret.content.limit = lim /\ ret.content.offset = off
            /\ \A i \in 1 .. Len(ret.content.cdps) :
                    call.asset # Absent => ret.content.cdps[i].asset \in call.asset
            /\ PagesFrom(0, call.loans, call.asset, lim) = wanted

\* a page from the middle of a filtered list that is shorter than the answer
C20_Witness ==
    /\ call.fn = "get_all_cdps"
    /\ ret # None
    /\ call.indexerUp
    /\ call.asset # Absent
    /\ ret.content.offset > 0
    /\ Len(ret.content.cdps) = ret.content.limit
    /\ ret.content.total > ret.content.offset + ret.content.limit
    /\ ret.content.total < Len(call.loans)

(***************************************************************************)
(* Awaited fetches and their time limits.  An invocation is a chain of     *)
(* awaits, each on one upstream; an upstream that never responds settles   *)
(* an await only through the time limit configured for it.                 *)
(***************************************************************************)
\* indexer: the axios instance of getIndexerClient; axios: the bare axios.get
\* of the registered handlers; params: loadSystemParamsFromUrl; chain: the
\* Blockfrost provider behind the Lucid handle
Backends == {"indexer", "axios", "params", "chain"}

\* axios.create({ ..., timeout: 15_000 })
INDEXER_TIMEOUT_MS == 15000

\* the time limits configured for the requests to a backend: the indexer
\* client sets one, nothing else in the sources does
TimeoutOf(backend) == IF backend = "indexer" THEN {INDEXER_TIMEOUT_MS} ELSE {}

Times(n, b) == [i \in 1..n |-> b]

\* the awaits of a handler, in order (a Promise.all counts as one await)
AwaitPlan(tool) ==
    IF tool \in LegacyTools THEN Times(LegacyGets(tool), "axios")
    ELSE IF tool \in ReadTools THEN <<"indexer">>
    ELSE <<"chain", "chain">>
         \o (IF tool \in AccountFirstTools THEN <<"chain">> ELSE <<>>)
         \o (IF tool \in ParamsTools THEN <<"params">> ELSE <<>>)
         \o (IF tool \in AccountAfterParamsTools THEN <<"chain">> ELSE <<>>)
         \o (IF Phase1(tool) # {} THEN <<"chain">> ELSE <<>>)
         \o (IF tool \in Phase2Tools THEN <<"chain">> ELSE <<>>)
         \o <<"chain">>

LiveTools == MutatingTools \cup ReadTools \cup LegacyTools

\* what the client receives when an await of the tool rejects with e
Rejection(tool, e) ==
    IF tool \in LegacyTools THEN RejectedPromise(e) ELSE ErrorResult(tool, e)

Awaiting == pc = "await" /\ req.at <= Len(AwaitPlan(req.tool))
AwaitedBackend == AwaitPlan(req.tool)[req.at]

\* the upstreams that never respond, fixed for a behaviour
LiveInit ==
    /\ call \in {[fn |-> "upstreams", silent |-> s] : s \in SUBSET Backends}
    /\ ret = None
    /\ delisted = {}
    /\ apiKey = TRUE
    /\ MachineIdle

LiveStart ==
    /\ pc = "idle"
    /\ \E t \in LiveTools : req' = [tool |-> t, at |-> 1]
    /\ pc' = "await"
    /\ res' = None
    /\ UNCHANGED <<delisted, apiKey, lucidInstance, cachedParams, lk, asm, net, call, ret,
                   providerVars>>

\* the awaited upstream responds: the handler goes on to its next await,
\* returns after the last one, or reports the failure it was answered with
AwaitSettles ==
    /\ Awaiting
    /\ AwaitedBackend \notin call.silent
    /\ \/ /\ req.at < Len(AwaitPlan(req.tool))
          /\ req' = [req EXCEPT !.at = @ + 1]
          /\ UNCHANGED <<pc, res>>
       \/ /\ req.at = Len(AwaitPlan(req.tool))
          /\ res' = SuccessResult([data |-> "result"])
          /\ pc' = "done"
          /\ UNCHANGED req
       \/ /\ res' = Rejection(req.tool, "Request failed")
          /\ pc' = "done"
          /\ UNCHANGED req
    /\ UNCHANGED <<delisted, apiKey, lucidInstance, cachedParams, lk, asm, net, call, ret,
                   providerVars>>

\* the upstream stays silent and the request's time limit runs out: the
\* client library rejects the await
TimeoutFires ==
    /\ Awaiting
    /\ AwaitedBackend \in call.silent
    /\ \E ms \in TimeoutOf(AwaitedBackend) :
        res' = Rejection(req.tool, <<"timeout exceeded", ms>>)
    /\ pc' = "done"
    /\ UNCHANGED <<delisted, apiKey, lucidInstance, cachedParams, req, lk, asm, net, call, ret,
                   providerVars>>

LiveRespond ==
    /\ pc = "done"
    /\ pc' = "idle"
    /\ req' = None
    /\ res' = None
    /\ UNCHANGED <<delisted, apiKey, lucidInstance, cachedParams, lk, asm, net, call, ret,
                   providerVars>>

LiveNext == LiveStart \/ AwaitSettles \/ TimeoutFires \/ LiveRespond

\* a settled promise is always acted upon by the event loop, and a running
\* timer always fires
SpecLive ==
    LiveInit /\ [][LiveNext]_vars /\ WF_vars(AwaitSettles) /\ WF_vars(TimeoutFires)

\* C21: every external fetch is bounded by a fixed time limit, so every tool
\* invocation eventually returns a success or error result, whichever
\* upstreams never respond.
C21_EveryInvocationReturns == (pc = "await") ~> (pc = "done")

(***************************************************************************)
(* get_collector_utxos: GET or POST /collector/utxos.                      *)
(***************************************************************************)
MaxLength == 30

\* the numbers z.number() lets through (NaN is refused by the schema)
LengthValues == (0 - MaxLength)..MaxLength

\* the truthiness of a number: only zero is falsy
Truthy(n) == n # 0

CollectorPath == "/collector/utxos"

\* length ? client.post('/collector/utxos', { length }) : client.get(...)
CollectorRequest(length) ==
    IF \E n \in length : Truthy(n)
    THEN [method |-> "POST", path |-> CollectorPath, body |-> length]
    ELSE [method |-> "GET", path |-> CollectorPath, body |-> Absent]

get_collector_utxos(length, indexerUp) ==
    [fn |-> "get_collector_utxos",
     request |-> CollectorRequest(length),
     result |-> IF indexerUp
                THEN SuccessResult([data |-> "utxos"])
                ELSE [content |-> [text |-> <<"Error fetching collector UTXOs: ",
                                             "Request failed">>],
                      isError |-> TRUE]]

CollectorCalls ==
    {[fn |-> "get_collector_utxos", length |-> l, indexerUp |-> up] :
        l \in {Absent} \cup {Given(n) : n \in LengthValues}, up \in BOOLEAN}

CollectorInit ==
    /\ delisted = {}
    /\ apiKey = FALSE
    /\ MachineIdle
    /\ call \in CollectorCalls
    /\ ret = None

ApplyGetCollectorUtxos ==
    /\ call.fn = "get_collector_utxos"
    /\ ret = None
    /\ ret' = get_collector_utxos(call.length, call.indexerUp)
    /\ UNCHANGED <<call, machineVars, providerVars>>

CollectorNext == ApplyGetCollectorUtxos

SpecCollector == CollectorInit /\ [][CollectorNext]_vars

\* C22: get_collector_utxos issues POST /collector/utxos with body {length}
\* whenever a length is provided, whatever its numeric value, and issues
\* GET /collector/utxos exactly when none is provided.
C22_PostIffLengthProvided ==
    ret # None =>
        /\ call.length # Absent =>
              ret.request = [method |-> "POST", path |-> CollectorPath, body |-> call.length]
        /\ (ret.request.method = "GET") = (call.length = Absent)

(***************************************************************************)
(* buildUnsignedTx of overlapping requests on the shared handle.           *)
(***************************************************************************)
WalletAddresses == {"addr_a", "addr_b"}

NotBuilding == [st |-> "idle", address |-> "none", wallet |-> "none"]

\* the handle exists since an earlier request, whose wallet it still holds
WalletInit ==
    /\ delisted = {}
    /\ apiKey = TRUE
    /\ lucidInstance \in {Lucid(a) : a \in WalletAddresses}
    /\ cachedParams = NullParams
    /\ cacheTimestamp = 0
    /\ now = 0
    /\ calls = [c \in Callers |-> NotBuilding]
    /\ req = None
    /\ pc = "idle"
    /\ lk = NoLookups
    /\ asm = NoAssembly
    /\ net = NoRequests
    /\ res = None
    /\ call = None
    /\ ret = None

\* buildUnsignedTx(address, buildFn, summary): getLucid() returns the shared
\* handle and lucid.utxosAt(address) is awaited
CallBuildUnsignedTx(c) ==
    /\ calls[c].st = "idle"
    /\ lucidInstance.live
    /\ \E a \in WalletAddresses :
        calls' = [calls EXCEPT ![c] = [st |-> "utxosAt", address |-> a, wallet |-> "none"]]
    /\ UNCHANGED <<machineVars, pureVars, now, cacheTimestamp>>

\* utxosAt resolved: lucid.selectWallet.fromAddress(address, utxos), then
\* buildFn(lucid) is called and runs up to its first await
SelectWallet(c) ==
    /\ calls[c].st = "utxosAt"
    /\ lucidInstance' = [lucidInstance EXCEPT !.wallet = calls[c].address]
    /\ calls' = [calls EXCEPT ![c] = [@ EXCEPT !.st = "buildFn"]]
    /\ UNCHANGED <<delisted, apiKey, cachedParams, req, pc, lk, asm, net, res, pureVars,
                   now, cacheTimestamp>>

\* buildFn's awaits are over and the transaction is completed: inputs and
\* change come from the wallet the handle holds at that moment
BuildFnCompletes(c) ==
    /\ calls[c].st = "buildFn"
    /\ calls' = [calls EXCEPT ![c] =
                    [@ EXCEPT !.st = "returned", !.wallet = lucidInstance.wallet]]
    /\ UNCHANGED <<machineVars, pureVars, now, cacheTimestamp>>

\* utxosAt, a lookup or the builder rejected
BuildRejects(c) ==
    /\ calls[c].st \in {"utxosAt", "buildFn"}
    /\ calls' = [calls EXCEPT ![c] = [@ EXCEPT !.st = "rejected"]]
    /\ UNCHANGED <<machineVars, pureVars, now, cacheTimestamp>>

\* the handler has returned its result
BuildReturns(c) ==
    /\ calls[c].st \in {"returned", "rejected"}
    /\ calls' = [calls EXCEPT ![c] = NotBuilding]
    /\ UNCHANGED <<machineVars, pureVars, now, cacheTimestamp>>

WalletNext ==
    \/ \E c \in Callers : CallBuildUnsignedTx(c)
    \/ \E c \in Callers : SelectWallet(c)
    \/ \E c \in Callers : BuildFnCompletes(c)
    \/ \E c \in Callers : BuildRejects(c)
    \/ \E c \in Callers : BuildReturns(c)

SpecWallet == WalletInit /\ [][WalletNext]_vars

\* C23: when mutating requests for different addresses interleave, no other
\* request changes the wallet selection between a request's
\* selectWallet.fromAddress and the completion of its buildFn, and each
\* transaction is assembled with the wallet of its own address.
C23_OwnWalletAssembled ==
    \A c \in Callers :
        /\ calls[c].st = "buildFn" => lucidInstance.wallet = calls[c].address
        /\ calls[c].st = "returned" => calls[c].wallet = calls[c].address

-----------------------------------------------------------------------------
\* C24: across any interleaving of getSystemParams calls, a stored fetch
\* result is never replaced by the result of a fetch that started earlier:
\* cacheTimestamp, the start time of the fetch the cache belongs to, never
\* decreases except through resetSystemParamsCache.
C24_NoOlderFetchReplacesNewer ==
    [][cachedParams' = NullParams \/ cacheTimestamp' >= cacheTimestamp]_vars

-----------------------------------------------------------------------------
\* C25: after resetLucid() (respectively resetSystemParamsCache()) returns,
\* no later getLucid (getSystemParams) call is served from the cache a value
\* whose construction (fetch) started before the reset, even when it was
\* still in flight at the reset.  Stated for the handle: a call made after
\* the reset never returns without constructing the handle that a
\* construction begun before the reset delivered.
C25_ResetDropsInFlight ==
    \A c, d \in DOMAIN calls :
        /\ calls[c].st = "returned" /\ calls[c].built = 1 /\ calls[c].straddled
        /\ calls[d].st = "returned" /\ calls[d].built = 0 /\ ~calls[d].straddled
        => calls[d].value # calls[c].value

-----------------------------------------------------------------------------
\* C26: when the fetch inside getSystemParams fails, the call rejects with
\* the error and returns nothing (not the expired cached value), cachedParams
\* and cacheTimestamp are left as they were, and the caller's next call, on
\* the cache the failed call saw, fetches again.
C26_FailedFetchLeavesCache ==
    [][\A c \in Callers :
        /\ (calls[c].st = "fetching" /\ calls'[c].st = "rejected") =>
              /\ cachedParams' = cachedParams
              /\ cacheTimestamp' = cacheTimestamp
              /\ calls'[c].value = NullParams
              /\ calls'[c].stored = NullParams
        /\ (/\ calls[c].st = "rejected"
            /\ calls'[c] # calls[c]
            /\ cachedParams = calls[c].entry.params
            /\ cacheTimestamp = calls[c].entry.timestamp) =>
              /\ calls'[c].st = "fetching"
              /\ calls'[c].fetches = 1]_vars

\* a fetch failed while the cache held an expired document, which is still
\* there with its timestamp
C26_Witness ==
    \E c \in Callers :
        /\ calls[c].st = "rejected"
        /\ calls[c].entry.params # NullParams
        /\ cachedParams = calls[c].entry.params
        /\ cacheTimestamp = calls[c].entry.timestamp

-----------------------------------------------------------------------------
\* C27: liquidate_cdp called with asset A passes to the assembly primitive
\* the stability-pool record that belongs to asset A, never the pool record
\* of another asset, whatever pool records coexist at the stability-pool
\* address.
C27_LiquidationUsesOwnPool ==
    (/\ Invoked({"liquidate_cdp"})
     /\ lk["stabilityPool"].st = "ok")
        => fromText(req.asset) \in LocatedIAsset(lk["stabilityPool"]).units

(***************************************************************************)
(* The two iAsset locators on the same snapshot.                           *)
(***************************************************************************)
\* an output holding the auth token whose datum names the asset but which
\* holds no unit named after it
UnitlessRecord(asset) ==
    [datum |-> "IAsset", assetName |-> fromText(asset), price |-> "Oracle", units |-> {}]

\* what lucid.utxosAtWithUnit(cdpAddress, authToken) may answer
SnapshotLists ==
    SeqsUpTo(Candidates \cup {UnitlessRecord(a) : a \in Assets}, MaxCandidates)

LocatorPairCalls ==
    {[fn |-> "findIAssetUtxo pair", asset |-> a, utxos |-> u] :
        a \in Assets, u \in SnapshotLists}

LocatorInit ==
    /\ apiKey = TRUE
    /\ delisted = {}
    /\ MachineIdle
    /\ call \in LocatorPairCalls
    /\ ret = None

\* the locator of the mint/burn tools and the locator of the cdp-write tools,
\* each applied to the same answer
ApplyLocatorPair ==
    /\ call.fn = "findIAssetUtxo pair"
    /\ ret = None
    /\ ret' = [fn |-> "findIAssetUtxo pair",
               byUnit |-> Locate("mint_cdp", "iasset", call.asset, call.utxos),
               byDatum |-> Locate("open_cdp", "iasset", call.asset, call.utxos)]
    /\ UNCHANGED <<call, machineVars, providerVars>>

LocatorNext == ApplyLocatorPair

SpecLocators == LocatorInit /\ [][LocatorNext]_vars

\* C28: for every snapshot and asset the iAsset locator of mint_cdp /
\* burn_cdp (by held unit, exactly one match) and the locator of open /
\* deposit / withdraw / close_cdp (by datum asset name, first match) agree:
\* both fail, or both return the same record.
C28_LocatorsAgree ==
    ret # None =>
        /\ (ret.byUnit.st = "ok") = (ret.byDatum.st = "ok")
        /\ ret.byUnit.st = "ok" => ret.byUnit.idx = ret.byDatum.idx

(***************************************************************************)
(* analyze_cdp_health on positions whose ratio lies next to a tier.        *)
(***************************************************************************)
MaxOffsetSteps == 6

TierEdges ==
    MinRatioValues \cup LiquidationValues
        \cup {(m * SafetyNum) \div SafetyDen : m \in MinRatioValues}

\* collateral of a one-token position at price 1: ten lovelace move its ratio
\* by a thousandth of a percent
NearEdgeCollateral ==
    {e * (Million \div Hundred) + d * 10 :
        e \in TierEdges, d \in (0 - MaxOffsetSteps)..MaxOffsetSteps}

NearEdgeCalls ==
    {[fn |-> "analyze_cdp_health", collateral |-> c, minted |-> Million,
      price |-> Rat(1, 1), minRatio |-> mr, liquidation |-> lr, accrued |-> 0] :
        c \in NearEdgeCollateral, mr \in MinRatioValues, lr \in LiquidationValues}

NearEdgeInit ==
    /\ apiKey = TRUE
    /\ delisted = {}
    /\ MachineIdle
    /\ call \in NearEdgeCalls
    /\ ret = None

NearEdgeNext == ApplyAnalyze

SpecNearEdge == NearEdgeInit /\ [][NearEdgeNext]_vars

\* C29: the reported collateralRatio (rounded to two decimals) and the
\* reported status agree: the status is the tier of the reported ratio
\* against the reported maintenance and liquidation ratios.
C29_StatusMatchesReportedRatio ==
    Analyzed =>
        ret.status = AnalyzeStatus(ret.collateralRatio, ret.maintenanceRatio,
                                   ret.liquidationRatio)

(***************************************************************************)
(* extractPaymentCredential on addresses of any payload length.            *)
(***************************************************************************)
MaxPayloadLen == 30

\* bech32 strings with an address prefix and a valid checksum, whose payload
\* is n bytes long
PayloadInputs ==
    {Bech32Input(hrp, [i \in 1..n |-> b], TRUE) :
        hrp \in {"addr", "addr_test"}, n \in 0..MaxPayloadLen, b \in HeaderBytes}

PayloadCalls ==
    {[fn |-> "extractPaymentCredential", input |-> x] :
        x \in PayloadInputs \cup {TextInput(c) : c \in Credentials}}

PayloadInit ==
    /\ apiKey = TRUE
    /\ delisted = {}
    /\ MachineIdle
    /\ call \in PayloadCalls
    /\ ret = None

PayloadNext == ApplyExtract

SpecPayload == PayloadInit /\ [][PayloadNext]_vars

\* C30: every value extractPaymentCredential returns, for raw hex or for an
\* address of any payload length, is a 56-hex-character string, and the
\* function applied to that value returns it again without error.
C30_ReturnsCredential ==
    (call.fn = "extractPaymentCredential" /\ ret # None /\ ret.ok) =>
        /\ IsCredentialHex(TextInput(ret.val))
        /\ extractPaymentCredential(TextInput(ret.val)) = ret

==============================================================================
